---- MODULE Spec2Model ----
(***************************************************************************)
(* A model of the pbj habit tracker: the HTTP handlers under api/ acting   *)
(* on the relational tables (users, sessions, buckets, entries,            *)
(* user_notes), and the one-time bucket-ownership migration script.        *)
(*                                                                         *)
(* Conventions.  SQL NULL is the id 0 (SERIAL ids start at 1).  A text     *)
(* value is a sequence of one-character strings, so that trim() is         *)
(* computed and not assumed.  A calendar date 'YYYY-MM-DD' is the tuple    *)
(* <<y, m, d>>; the code compares dates as zero-padded strings, which is   *)
(* the lexicographic order on the tuples.  The server clock is a day       *)
(* number (the server runs in UTC, as on the deployment platform).         *)
(* An unhandled storage exception in a handler is answered 500.            *)
(***************************************************************************)
EXTENDS Integers, Sequences, FiniteSets, TLC

VARIABLES
    users,          \* table users: set of [id, email]
    sessions,       \* table sessions: set of [id, user_id, token_hash, expires_at]
    buckets,        \* table buckets: set of [id, user_id, name, sort_order]
    entries,        \* table entries: set of [user_id, bucket_id, date, checked]
    user_notes,     \* table user_notes: set of [user_id, date, notes]
    nextBucketId,   \* the SERIAL sequence behind buckets.id
    nextSessionId,  \* the SERIAL sequence behind sessions.id
    nextUserId,     \* the SERIAL sequence behind users.id
    now,            \* the server clock, in days
    res,            \* status code of the last response sent
    schema,         \* the buckets table's schema: [user_id, not_null, name_unique, user_name_unique]
    mig,            \* the migration script's process state
    app,            \* the state of the page (src/App.tsx) open in one browser
    inflight        \* the requests under way: [creates, toggles]; a toggle stays, marked done

vars == <<users, sessions, buckets, entries, user_notes, nextBucketId, now, res, schema, mig,
          app, nextSessionId, nextUserId, inflight>>

apiVars == <<users, sessions, buckets, entries, user_notes, nextBucketId, now, res>>

NULL == 0

\* ------------------------------------------------------------------ bounds

\* the last day the clock reaches
MaxDay == 3
\* the last id the buckets sequence hands out to a create request
MaxBucketId == 9
\* the number of (user, bucket, date) keys the entries table may hold
MaxEntries == 1
\* the number of global buckets a legacy database holds
MaxLegacyBuckets == 2
\* the number of entries a legacy database holds
MaxLegacyEntries == 2
\* the number of buckets the first user owns when the page is opened
MaxStatsBuckets == 2
\* the number of entries stored when the page is opened
MaxStatsEntries == 2
\* the number of sessions handed out
MaxSessions == 3

\* create requests the server works on at the same time
MaxInFlight == 2

\* check-in requests one page sends in a behaviour
MaxToggles == 3

\* ------------------------------------------------------------------ text

RECURSIVE trimStart(_)
trimStart(s) ==
    IF s # <<>> /\ Head(s) = " " THEN trimStart(Tail(s)) ELSE s

RECURSIVE trimEnd(_)
trimEnd(s) ==
    IF s # <<>> /\ s[Len(s)] = " " THEN trimEnd(SubSeq(s, 1, Len(s) - 1)) ELSE s

\* String.prototype.trim
trim(s) == trimEnd(trimStart(s))

\* ------------------------------------------------------------------ dates

isLeapYear(y) == (y % 4 = 0 /\ y % 100 # 0) \/ y % 400 = 0

monthLength(y, m) ==
    IF m = 2 THEN (IF isLeapYear(y) THEN 29 ELSE 28)
    ELSE IF m \in {4, 6, 9, 11} THEN 30 ELSE 31

nextDate(dt) ==
    IF dt[3] < monthLength(dt[1], dt[2]) THEN <<dt[1], dt[2], dt[3] + 1>>
    ELSE IF dt[2] < 12 THEN <<dt[1], dt[2] + 1, 1>>
    ELSE <<dt[1] + 1, 1, 1>>

prevDate(dt) ==
    IF dt[3] > 1 THEN <<dt[1], dt[2], dt[3] - 1>>
    ELSE IF dt[2] > 1 THEN <<dt[1], dt[2] - 1, monthLength(dt[1], dt[2] - 1)>>
    ELSE <<dt[1] - 1, 12, 31>>

\* The calendar date of clock value 0.
DayZero == <<2024, 2, 27>>

\* new Date(t).toISOString().slice(0, 10) for the instant t (a day number)
RECURSIVE toISODate(_)
toISODate(t) ==
    IF t = 0 THEN DayZero
    ELSE IF t > 0 THEN nextDate(toISODate(t - 1))
    ELSE prevDate(toISODate(t + 1))

\* a < b on 'YYYY-MM-DD' strings
dateLess(a, b) ==
    \/ a[1] < b[1]
    \/ a[1] = b[1] /\ a[2] < b[2]
    \/ a[1] = b[1] /\ a[2] = b[2] /\ a[3] < b[3]

\* monthBounds(month) of api/checkins.js, month = <<y, m>>
monthBounds(month) ==
    [start |-> <<month[1], month[2], 1>>,
     end   |-> <<month[1], month[2], monthLength(month[1], month[2])>>]

\* ------------------------------------------------------------------ configuration

\* api/_lib/auth.js
SESSION_DAYS == 45
ADMIN_EMAILS == {"ashwinb@gmail.com"}

isAdminEmail(email) == email \in ADMIN_EMAILS

\* createHash('sha256').update(token).digest('hex'): one-way, collision-free
hashToken(token) == <<"sha256", token>>

\* api/_lib/db.js.  The three default habit names, abbreviated to short texts.
DEFAULT_BUCKETS ==
    << [name |-> <<"c", "a", "l">>, sortOrder |-> 1],
       [name |-> <<"c", "a", "r">>, sortOrder |-> 2],
       [name |-> <<"s", " ", "m">>, sortOrder |-> 3] >>

MAX_BUCKETS_PER_USER == 5

\* ------------------------------------------------------------------ storage

bucketIds == {b.id : b \in buckets}

bucketsOf(userId) == LET id == userId IN {b \in buckets : b.user_id = id}

\* a buckets table that lacks the unique index: no row ever collides
withoutUserNameIndex(rows, exceptId, userId, name) == FALSE

\* the unique index buckets_user_name_unique on buckets(user_id, name):
\* whether a row (userId, name) would collide with a row other than `exceptId`
violatesUserNameUnique(rows, exceptId, userId, name) ==
    /\ userId # NULL
    /\ \E b \in rows : b.id # exceptId /\ b.user_id = userId /\ b.name = name

\* entries.bucket_id REFERENCES buckets(id): the insert needs the bucket row
violatesBucketFk(bucketId) == bucketId \notin bucketIds

\* a foreign key declared without ON DELETE CASCADE that lets the rows stay
withoutCascade(rows, gone) == rows

\* entries.bucket_id ... ON DELETE CASCADE: the entries that survive the
\* deletion of the bucket rows `gone`
cascadeEntries(rows, gone) == {e \in rows : e.bucket_id \notin {b.id : b \in gone}}

\* a plain INSERT on a table without the UNIQUE(user_id, bucket_id, date) key
insertAnotherRow(rows, row) == rows \cup {row}

\* INSERT INTO entries ... ON CONFLICT (user_id, bucket_id, date)
\* DO UPDATE SET checked = EXCLUDED.checked
upsertEntry(rows, row) ==
    {e \in rows : ~(e.user_id = row.user_id /\ e.bucket_id = row.bucket_id
                     /\ e.date = row.date)} \cup {row}

\* INSERT INTO user_notes ... ON CONFLICT (user_id, date) DO UPDATE SET notes
upsertNote(rows, row) ==
    {n \in rows : ~(n.user_id = row.user_id /\ n.date = row.date)} \cup {row}

\* a DELETE whose WHERE clause matches no row
deleteNoNote(rows, userId, date) == rows

\* DELETE FROM user_notes WHERE user_id = .. AND date = ..
deleteNote(rows, userId, date) ==
    {n \in rows : ~(n.user_id = userId /\ n.date = date)}

\* ------------------------------------------------------------------ sessions

\* a session lookup that does not look at expires_at
getUserIgnoringExpiry(req) ==
    LET none == [user_id |-> NULL, email |-> "", isAdmin |-> FALSE,
                 sessionId |-> NULL, sessions |-> sessions]
    IN  IF "cookie" \notin DOMAIN req THEN none
        ELSE LET rows == {s \in sessions : s.token_hash = hashToken(req.cookie)}
             IN  IF rows = {} THEN none
                 ELSE LET session == CHOOSE s \in rows : TRUE
                          user == CHOOSE u \in users : u.id = session.user_id
                      IN  [user_id |-> user.id, email |-> user.email,
                           isAdmin |-> isAdminEmail(user.email),
                           sessionId |-> session.id, sessions |-> sessions]

\* getUserFromRequest: the caller's identity and the sessions table it leaves
\* (an expired session row is deleted on sight).
getUserFromRequest(req) ==
    LET none == [user_id |-> NULL, email |-> "", isAdmin |-> FALSE,
                 sessionId |-> NULL, sessions |-> sessions]
    IN  IF "cookie" \notin DOMAIN req THEN none
        ELSE LET tokenHash == hashToken(req.cookie)
                 rows == {s \in sessions : s.token_hash = tokenHash
                            /\ \E u \in users : u.id = s.user_id}
             IN  IF rows = {} THEN none
                 ELSE LET session == CHOOSE s \in rows : TRUE
                          user == CHOOSE u \in users : u.id = session.user_id
                      IN  IF session.expires_at < now
                          THEN [none EXCEPT !.sessions = sessions \ {session}]
                          ELSE [user_id |-> user.id, email |-> user.email,
                                isAdmin |-> isAdminEmail(user.email),
                                sessionId |-> session.id, sessions |-> sessions]

\* randomBytes(32).toString('hex'): the n-th draw of the generator; no two
\* draws are equal
randomBytes(n) == <<"random", n>>

\* a session that lasts a day longer
expiresADayLater(t) == t + SESSION_DAYS + 1

\* new Date(Date.now() + SESSION_DAYS * 24 * 60 * 60 * 1000), in days
expiresAt(t) == t + SESSION_DAYS

\* createSession(userId): the token handed out and the sessions table with
\* the new row (created_at is the column's DEFAULT NOW())
createSession(userId) ==
    LET token == randomBytes(nextSessionId)
    IN  [token |-> token,
         sessions |-> sessions \cup
             { [id |-> nextSessionId, user_id |-> userId, token_hash |-> hashToken(token),
                expires_at |-> expiresAt(now), created_at |-> now] }]

\* a DELETE that removes no row
deleteNoSession(rows, sessionId) == rows

\* DELETE FROM sessions WHERE id = ..
deleteSession(rows, sessionId) == {s \in rows : s.id # sessionId}

\* ------------------------------------------------------------------ responses

\* What a handler leaves behind once the caller is authenticated: the response
\* and the tables.
Reply(status, error) ==
    [status |-> status, error |-> error, buckets |-> buckets, entries |-> entries,
     user_notes |-> user_notes, nextBucketId |-> nextBucketId]

Ok == Reply(200, "")

\* an exception no handler catches: the platform answers 500
Thrown == Reply(500, "exception")

\* ------------------------------------------------------------------ api/_lib/db.js

\* the INSERT ... ON CONFLICT (user_id, name) DO NOTHING of one default bucket
insertDefault(db, userId, bucket) ==
    IF violatesUserNameUnique(db.buckets, NULL, userId, bucket.name) THEN db
    ELSE [buckets |-> db.buckets \cup
                        {[id |-> db.nextBucketId, user_id |-> userId,
                          name |-> bucket.name, sort_order |-> bucket.sortOrder]},
          nextBucketId |-> db.nextBucketId + 1]

RECURSIVE insertDefaults(_, _, _)
insertDefaults(db, userId, i) ==
    IF i > Len(DEFAULT_BUCKETS) THEN db
    ELSE insertDefaults(insertDefault(db, userId, DEFAULT_BUCKETS[i]), userId, i + 1)

\* seedBucketsForUser(userId) on the bucket table db = [buckets, nextBucketId]
seedBucketsForUser(db, userId) ==
    IF \E b \in db.buckets : b.user_id = userId THEN db
    ELSE insertDefaults(db, userId, 1)

RECURSIVE seedAll(_, _, _)
seedAll(db, order, i) ==
    IF i > Len(order) THEN db
    ELSE seedAll(seedBucketsForUser(db, order[i]), order, i + 1)

\* a reset that empties the entries and seeds without emptying the buckets
resetDataKeepingBuckets(allUsers) ==
    LET db == seedAll([buckets |-> buckets, nextBucketId |-> nextBucketId], allUsers, 1)
    IN  [Ok EXCEPT !.entries = {}, !.buckets = db.buckets,
                   !.nextBucketId = db.nextBucketId]

\* resetData(): both tables emptied, then every user re-seeded; `allUsers` is
\* the order in which SELECT id FROM users returned the rows
resetData(allUsers) ==
    LET db == seedAll([buckets |-> {}, nextBucketId |-> nextBucketId], allUsers, 1)
    IN  [Ok EXCEPT !.entries = {}, !.buckets = db.buckets,
                   !.nextBucketId = db.nextBucketId]

\* ------------------------------------------------------------------ api/buckets.js

\* the limit test written with > in place of >=
limitReachedOnePast(userId) == Cardinality(bucketsOf(userId)) > MAX_BUCKETS_PER_USER

\* SELECT COUNT(*) ... WHERE user_id = userId; count >= MAX_BUCKETS_PER_USER
limitReached(userId) == Cardinality(bucketsOf(userId)) >= MAX_BUCKETS_PER_USER

\* the number of the user's buckets in place of the largest sort position
sortOrderCount(userId) == Cardinality(bucketsOf(userId))

\* SELECT COALESCE(MAX(sort_order), 0) ... WHERE user_id = userId
maxSortOrder(userId) ==
    IF bucketsOf(userId) = {} THEN 0
    ELSE CHOOSE m \in {b.sort_order : b \in bucketsOf(userId)} :
            \A b \in bucketsOf(userId) : b.sort_order <= m

\* INSERT INTO buckets (user_id, name, sort_order) VALUES (...)
insertBucket(userId, name, sortOrder) ==
    IF violatesUserNameUnique(buckets, NULL, userId, name) THEN Thrown
    ELSE [Ok EXCEPT !.buckets = buckets \cup
                        {[id |-> nextBucketId, user_id |-> userId, name |-> name,
                          sort_order |-> sortOrder]},
                    !.nextBucketId = nextBucketId + 1]

\* a create that runs the INSERT before it looks at the limit
createBucketInsertFirst(userId, payload) ==
    IF "name" \notin DOMAIN payload \/ trim(payload.name) = <<>>
    THEN Reply(400, "Bucket name required")
    ELSE IF violatesUserNameUnique(buckets, NULL, userId, trim(payload.name))
    THEN Thrown
    ELSE IF limitReached(userId)
    THEN Reply(400, "Maximum 5 habits allowed")
    ELSE insertBucket(userId, trim(payload.name), maxSortOrder(userId) + 1)

\* POST /api/buckets
createBucket(userId, payload) ==
    IF "name" \notin DOMAIN payload \/ trim(payload.name) = <<>>
    THEN Reply(400, "Bucket name required")
    ELSE IF limitReached(userId)
    THEN Reply(400, "Maximum 5 habits allowed")
    ELSE insertBucket(userId, trim(payload.name), maxSortOrder(userId) + 1)

\* SELECT id FROM buckets WHERE id = .. AND user_id = ..: no row found
notOwned(id, userId) == ~\E b \in buckets : b.id = id /\ b.user_id = userId

\* UPDATE buckets SET name = COALESCE(.., name), sort_order = COALESCE(.., sort_order)
\* WHERE id = .. AND user_id = ..
updateBucket(userId, id, payload) ==
    LET old == CHOOSE b \in buckets : b.id = id /\ b.user_id = userId
        name == IF "name" \in DOMAIN payload /\ trim(payload.name) # <<>>
                THEN trim(payload.name) ELSE old.name
        sortOrder == IF "sortOrder" \in DOMAIN payload
                     THEN payload.sortOrder ELSE old.sort_order
    IN  IF violatesUserNameUnique(buckets, id, userId, name) THEN Thrown
        ELSE [Ok EXCEPT !.buckets = (buckets \ {old}) \cup
                  {[old EXCEPT !.name = name, !.sort_order = sortOrder]}]

\* PUT /api/buckets
renameBucket(userId, payload) ==
    IF "id" \notin DOMAIN payload THEN Reply(400, "Bucket id required")
    ELSE IF notOwned(payload.id, userId) THEN Reply(404, "Bucket not found")
    ELSE updateBucket(userId, payload.id, payload)

\* DELETE FROM buckets WHERE id = .. AND user_id = .., with the cascade
deleteRows(userId, id) ==
    LET gone == {b \in buckets : b.id = id /\ b.user_id = userId}
    IN  [Ok EXCEPT !.buckets = buckets \ gone,
                   !.entries = cascadeEntries(entries, gone)]

\* DELETE /api/buckets
deleteBucket(userId, payload) ==
    IF "id" \notin DOMAIN payload THEN Reply(400, "Bucket id required")
    ELSE IF notOwned(payload.id, userId) THEN Reply(404, "Bucket not found")
    ELSE deleteRows(userId, payload.id)

\* SELECT id, name, sort_order FROM buckets WHERE user_id = ..
\* ORDER BY sort_order ASC, id ASC: whether row a comes before row b
listedBefore(a, b) ==
    a.sort_order < b.sort_order \/ (a.sort_order = b.sort_order /\ a.id < b.id)

\* the authenticated part of the handler
bucketsRoute(userId, req) ==
    IF req.method = "GET" THEN Ok
    ELSE IF "body" \notin DOMAIN req THEN Reply(400, "Missing payload")
    ELSE IF req.method = "POST" THEN createBucket(userId, req.body)
    ELSE IF req.method = "PUT" THEN renameBucket(userId, req.body)
    ELSE deleteBucket(userId, req.body)

\* ------------------------------------------------------------------ api/checkins.js

\* the window test with the earliest date three days back
outOfRangeThreeBack(date) ==
    dateLess(date, toISODate(now - 3)) \/ dateLess(toISODate(now), date)

\* date < earliestDate || date > todayDate, both read from the clock now
outOfRange(date) ==
    LET todayDate == toISODate(now)
        earliestDate == toISODate(now - 2)
    IN  dateLess(date, earliestDate) \/ dateLess(todayDate, date)

\* INSERT INTO entries (user_id, bucket_id, date, checked) ... ON CONFLICT ...
insertEntry(userId, bucketId, date, checked) ==
    IF violatesBucketFk(bucketId) THEN Thrown
    ELSE [Ok EXCEPT !.entries = upsertEntry(entries,
              [user_id |-> userId, bucket_id |-> bucketId, date |-> date,
               checked |-> checked])]

\* POST /api/checkins
postCheckin(userId, req) ==
    IF "body" \notin DOMAIN req \/ "bucketId" \notin DOMAIN req.body
          \/ "date" \notin DOMAIN req.body
    THEN Reply(400, "bucketId and date required")
    ELSE LET checked == IF "checked" \in DOMAIN req.body THEN req.body.checked # FALSE
                        ELSE TRUE
         IN  IF outOfRange(req.body.date)
             THEN Reply(400, "Can only edit entries for today and past 2 days")
             ELSE insertEntry(userId, req.body.bucketId, req.body.date, checked)

\* GET /api/checkins?month=..: SELECT ... FROM entries WHERE date BETWEEN start AND end
listForMonth(month) ==
    {e \in entries : ~dateLess(e.date, monthBounds(month).start)
                       /\ ~dateLess(monthBounds(month).end, e.date)}

checkinsRoute(userId, req) ==
    IF req.method = "GET"
    THEN (IF "month" \notin DOMAIN req THEN Reply(400, "month is required") ELSE Ok)
    ELSE postCheckin(userId, req)

\* ------------------------------------------------------------------ api/notes.js

notesRoute(userId, req) ==
    IF "body" \notin DOMAIN req \/ "date" \notin DOMAIN req.body
    THEN Reply(400, "date required")
    ELSE IF "notes" \notin DOMAIN req.body \/ trim(req.body.notes) = <<>>
    THEN [Ok EXCEPT !.user_notes = deleteNote(user_notes, userId, req.body.date)]
    ELSE [Ok EXCEPT !.user_notes = upsertNote(user_notes,
              [user_id |-> userId, date |-> req.body.date,
               notes |-> trim(req.body.notes)])]

\* ------------------------------------------------------------------ requests

Respond(r) ==
    /\ res' = [status |-> r.status, error |-> r.error]
    /\ buckets' = r.buckets
    /\ entries' = r.entries
    /\ user_notes' = r.user_notes
    /\ nextBucketId' = r.nextBucketId

methodNotAllowed ==
    /\ Respond(Reply(405, "Method not allowed"))
    /\ UNCHANGED sessions

\* requireUser: 401 for a caller without a session, else the handler's own
\* work, whose outcome is `reply`
requireUser(auth, reply) ==
    /\ sessions' = auth.sessions
    /\ Respond(IF auth.user_id = NULL THEN Reply(401, "Unauthorized") ELSE reply)

\* a reset that does not ask who is calling
resetByAnyone(auth, req) == resetData(req.allUsers)

\* api/admin/reset.js, past requireUser
resetAuthed(auth, req) ==
    IF ~auth.isAdmin THEN Reply(403, "Forbidden") ELSE resetData(req.allUsers)

\* api/buckets.js handler
BucketsHandler(req) ==
    /\ IF req.method \notin {"GET", "POST", "PUT", "DELETE"}
       THEN methodNotAllowed
       ELSE LET auth == getUserFromRequest(req)
            IN  requireUser(auth, bucketsRoute(auth.user_id, req))
    /\ UNCHANGED <<users, nextUserId, nextSessionId, now, schema, mig>>

\* api/checkins.js handler
CheckinsHandler(req) ==
    /\ IF req.method \notin {"GET", "POST"}
       THEN methodNotAllowed
       ELSE LET auth == getUserFromRequest(req)
            IN  requireUser(auth, checkinsRoute(auth.user_id, req))
    /\ UNCHANGED <<users, nextUserId, nextSessionId, now, schema, mig>>

\* api/notes.js handler
NotesHandler(req) ==
    /\ IF req.method # "POST"
       THEN methodNotAllowed
       ELSE LET auth == getUserFromRequest(req)
            IN  requireUser(auth, notesRoute(auth.user_id, req))
    /\ UNCHANGED <<users, nextUserId, nextSessionId, now, schema, mig>>

\* api/admin/reset.js handler
ResetHandler(req) ==
    /\ IF req.method # "POST"
       THEN methodNotAllowed
       ELSE LET auth == getUserFromRequest(req)
            IN  requireUser(auth, resetAuthed(auth, req))
    /\ UNCHANGED <<users, nextUserId, nextSessionId, now, schema, mig>>

\* INSERT INTO users ... ON CONFLICT (email) DO UPDATE SET name, image: a row
\* for an email that has none (name and image are not modelled)
upsertUser(email) ==
    IF \E u \in users : u.email = email THEN users
    ELSE users \cup {[id |-> nextUserId, email |-> email]}

\* api/auth/login.js handler.  A credential is modelled by what verifyIdToken
\* makes of it: it throws on a forged one, else yields the profile's email
\* ("" when the profile has none).  The INSERT draws from the users.id
\* sequence whether or not it ends in the DO UPDATE.
LoginHandler(req) ==
    /\ IF req.method # "POST"
       THEN methodNotAllowed /\ UNCHANGED <<users, nextUserId, nextSessionId>>
       ELSE IF "credential" \notin DOMAIN req
       THEN /\ Respond(Reply(400, "Missing credential"))
            /\ UNCHANGED <<users, nextUserId, sessions, nextSessionId>>
       ELSE IF req.credential.forged
       THEN Respond(Thrown) /\ UNCHANGED <<users, nextUserId, sessions, nextSessionId>>
       ELSE IF req.credential.email = ""
       THEN /\ Respond(Reply(401, "Unable to verify Google account"))
            /\ UNCHANGED <<users, nextUserId, sessions, nextSessionId>>
       ELSE LET rows == upsertUser(req.credential.email)
                user == CHOOSE u \in rows : u.email = req.credential.email
            IN  /\ users' = rows
                /\ nextUserId' = nextUserId + 1
                /\ sessions' = createSession(user.id).sessions
                /\ nextSessionId' = nextSessionId + 1
                /\ Respond(Ok)
    /\ UNCHANGED <<now, schema, mig>>

\* api/auth/logout.js handler
LogoutHandler(req) ==
    /\ IF req.method # "POST"
       THEN methodNotAllowed
       ELSE LET auth == getUserFromRequest(req)
            IN  /\ sessions' = IF auth.sessionId # NULL
                               THEN deleteSession(auth.sessions, auth.sessionId)
                               ELSE auth.sessions
                /\ Respond(Ok)
    /\ UNCHANGED <<users, nextUserId, nextSessionId, now, schema, mig>>

\* the server clock advances by a day
Tick ==
    /\ now < MaxDay
    /\ now' = now + 1
    /\ UNCHANGED <<app, inflight, nextSessionId, nextUserId,
                   users, sessions, buckets, entries, user_notes, nextBucketId, res,
                   schema, mig>>

\* ------------------------------------------------------------------ src/App.tsx

\* formatMonth(date): 'YYYY-MM' as <<y, m>>
formatMonth(date) == <<date[1], date[2]>>

\* the page as it is before anyone is signed in: useState's initial values
\* no request is on its way
idle == [creates |-> {}, toggles |-> {}]

signedOut ==
    [user |-> NULL, month |-> formatMonth(toISODate(now)),
     selectedDate |-> toISODate(now), allBuckets |-> {}, entries |-> {}]

\* EPOCH_DATE, as the development build and as the production build set it
EPOCH_DATES == { <<2000, 1, 1>>, <<2026, 1, 18>> }

\* todayISO()
today == toISODate(now)

\* the dates the check-in view offers: today and the two days before
editableDates == { toISODate(now - i) : i \in 0..2 }

\* the entries of GET /api/checkins?month=.. over the table `rows`:
\* user_id AS "userId", bucket_id AS "bucketId", date::text AS date, checked,
\* WHERE date BETWEEN start AND end
responseEntries(rows, month) ==
    { [userId |-> e.user_id, bucketId |-> e.bucket_id, date |-> e.date,
       checked |-> e.checked] :
        e \in {f \in rows : ~dateLess(f.date, monthBounds(month).start)
                               /\ ~dateLess(monthBounds(month).end, f.date)} }

\* the buckets of the same response: the buckets of every user
responseBuckets(rows) ==
    { [id |-> b.id, userId |-> b.user_id, name |-> b.name, sortOrder |-> b.sort_order] :
        b \in rows }

\* loadCheckins(monthValue): the page with the response stored, the tables
\* being as given
loaded(page, monthValue, bucketTable, entryTable) ==
    [page EXCEPT !.entries = responseEntries(entryTable, monthValue),
                 !.allBuckets = responseBuckets(bucketTable)]

\* getBucketsForUser(userId)
getBucketsForUser(userId) == {b \in app.allBuckets : b.userId = userId}

\* a day's count that takes every checked entry of the user
dayChecksOfAnyBucket(t) ==
    Cardinality({e \in app.entries : e.userId = app.user /\ e.checked
                                       /\ e.date = toISODate(t)})

\* userEntries.filter(e => e.date === dateStr && userBucketIds.has(e.bucketId)).length
\* for the day t
dayChecks(t) ==
    LET userEntries == {e \in app.entries : e.userId = app.user /\ e.checked}
        userBucketIds == {b.id : b \in getBucketsForUser(app.user)}
    IN  Cardinality({e \in userEntries : e.date = toISODate(t)
                                           /\ e.bucketId \in userBucketIds})

\* the while (true) loop of userStreak, from the day t backwards
RECURSIVE countBack(_)
countBack(t) ==
    IF dayChecks(t) >= Cardinality(getBucketsForUser(app.user))
    THEN 1 + countBack(t - 1)
    ELSE 0

\* userStreak
userStreak ==
    IF app.user = NULL \/ getBucketsForUser(app.user) = {} THEN 0
    ELSE LET todayComplete == dayChecks(now) >= Cardinality(getBucketsForUser(app.user))
         IN  countBack(IF todayComplete THEN now ELSE now - 1)

\* userCheckedBuckets: the ids of the buckets checked on the selected date
userCheckedBuckets ==
    IF app.user = NULL THEN {}
    ELSE { e.bucketId : e \in {f \in app.entries : f.userId = app.user
                                                     /\ f.date = app.selectedDate
                                                     /\ f.checked} }

completedToday == Cardinality(userCheckedBuckets)

totalBuckets == Cardinality(getBucketsForUser(app.user))

allDone == completedToday >= totalBuckets /\ totalBuckets > 0

\* friendsToday, the element for the user `friend`
friendsToday(friend) ==
    LET friendBuckets == getBucketsForUser(friend)
        friendEntries == {e \in app.entries : e.userId = friend /\ e.date = today
                                                /\ e.checked}
        friendBucketIds == {b.id : b \in friendBuckets}
        checkedCount == Cardinality({e \in friendEntries : e.bucketId \in friendBucketIds})
    IN  [checked |-> checkedCount,
         total |-> Cardinality(friendBuckets),
         complete |-> Cardinality(friendBuckets) > 0
                        /\ checkedCount >= Cardinality(friendBuckets)]

\* new Date(year, monthIndex, day) of JavaScript, for a month index 0..12 and
\* a day 0..28: the years 0..99 stand for 1900..1999, index 12 is January of
\* the next year, day 0 is the last day of the month before
jsDate(year, monthIndex, day) ==
    LET y == IF year \in 0 .. 99 THEN 1900 + year ELSE year
        first == IF monthIndex = 12 THEN <<y + 1, 1, 1>> ELSE <<y, monthIndex + 1, 1>>
    IN  IF day = 0 THEN prevDate(first) ELSE <<first[1], first[2], day>>

\* daysInMonth(month) of dateUtils.ts, month = <<y, m>>:
\* new Date(year, monthPart, 0).getDate()
dateUtilsDaysInMonth(month) == jsDate(month[1], month[2], 0)[3]

\* the memo daysInMonth of App, the same expression on the viewed month
daysInMonth == dateUtilsDaysInMonth(app.month)

\* activeDaysInMonth: the days of the viewed month from the epoch to today
activeDaysInMonth(epoch) ==
    Cardinality({day \in 1..daysInMonth :
                    LET date == <<app.month[1], app.month[2], day>>
                    IN  ~dateLess(date, epoch) /\ ~dateLess(today, date)})

\* allBuckets.find(b => b.id === entry.bucketId) is a bucket of the entry's user
bucketOfItsUser(entry) ==
    \E b \in app.allBuckets : b.id = entry.bucketId /\ b.userId = entry.userId

\* monthlyCompletionCounts.get(userId) || 0
monthlyCompletionCounts(userId, epoch) ==
    Cardinality({e \in app.entries :
                    /\ e.checked
                    /\ ~(dateLess(e.date, epoch) \/ dateLess(today, e.date))
                    /\ bucketOfItsUser(e)
                    /\ e.userId = userId})

\* getTotalPossibleForUser(userId)
getTotalPossibleForUser(userId, epoch) ==
    Cardinality(getBucketsForUser(userId)) * activeDaysInMonth(epoch)

\* Math.round(x) for x = p / q, q > 0, p >= 0: the nearest integer, halves up
round(p, q) == (2 * p + q) \div (2 * q)

\* the percentage shown on the user's card
percent(userId, epoch) ==
    LET completedCount == monthlyCompletionCounts(userId, epoch)
        totalPossible == getTotalPossibleForUser(userId, epoch)
    IN  IF totalPossible = 0 THEN 0 ELSE round(completedCount * 100, totalPossible)

\* a count that takes every checked entry of the user on that date
dayCompletionOfAnyBucket(userId, date) ==
    Cardinality({e \in app.entries : e.checked /\ e.userId = userId /\ e.date = date})

\* userDayCompletion.get(`${userId}-${date}`) || 0
userDayCompletion(userId, date) ==
    Cardinality({e \in app.entries :
                    e.checked /\ bucketOfItsUser(e) /\ e.userId = userId /\ e.date = date})

\* intensity = count / friendBuckets.length, as the fraction <<p, q>>
intensity(userId, date) ==
    IF getBucketsForUser(userId) = {} THEN <<0, 1>>
    ELSE <<userDayCompletion(userId, date), Cardinality(getBucketsForUser(userId))>>

\* the effect run once the page is open: /api/auth/me, then the first load
init(token) ==
    /\ app.user = NULL
    /\ LET auth == getUserFromRequest([cookie |-> token])
       IN  /\ sessions' = auth.sessions
           /\ app' = IF auth.user_id = NULL THEN app
                     ELSE loaded([app EXCEPT !.user = auth.user_id], app.month, buckets, entries)
    /\ UNCHANGED <<users, nextUserId, nextSessionId,
                   buckets, entries, user_notes, nextBucketId, now, inflight, res,
                   schema, mig>>

\* setMonth(m) and the effect that reloads the data for the month
setMonth(m) ==
    /\ app.user # NULL
    /\ m # app.month
    /\ app' = loaded([app EXCEPT !.month = m], m, buckets, entries)
    /\ UNCHANGED <<nextSessionId,
                   users, nextUserId, sessions, buckets, entries, user_notes, nextBucketId, now, inflight, res,
                   schema, mig>>

\* setSelectedDate(date), one of the editable dates
setSelectedDate(date) ==
    /\ app.user # NULL
    /\ date \in editableDates
    /\ date # app.selectedDate
    /\ app' = [app EXCEPT !.selectedDate = date]
    /\ UNCHANGED <<nextSessionId,
                   users, nextUserId, sessions, buckets, entries, user_notes, nextBucketId, now, inflight, res,
                   schema, mig>>

\* the optimistic update of handleToggle
toggled(rows, userId, bucketId, date, checked) ==
    IF \E e \in rows : e.userId = userId /\ e.bucketId = bucketId /\ e.date = date
    THEN { IF e.userId = userId /\ e.bucketId = bucketId /\ e.date = date
           THEN [e EXCEPT !.checked = checked] ELSE e : e \in rows }
    ELSE rows \cup {[userId |-> userId, bucketId |-> bucketId, date |-> date,
                     checked |-> checked]}

\* handleToggle(bucketId, checked): the optimistic update, the POST under the
\* session cookie `token`, and the reload when the POST fails
handleToggle(token, bucketId, checked) ==
    /\ app.user # NULL
    /\ CheckinsHandler([method |-> "POST", cookie |-> token,
                        body |-> [bucketId |-> bucketId, checked |-> checked,
                                  date |-> app.selectedDate]])
    /\ app' = IF res'.status = 200
              THEN [app EXCEPT !.entries = toggled(app.entries, app.user, bucketId,
                                                   app.selectedDate, checked)]
              ELSE loaded(app, app.month, buckets', entries')
    /\ UNCHANGED inflight

\* ------------------------------------------------------------------ scripts/migrate.js

\* the script's process: where it stands, the rows it read, its loop
\* counters, the tables and the schema as the run found them, how the run
\* before it ended, what it reported, and whether it was started with
\* --dry-run
notStarted ==
    [pc |-> "off", dryRun |-> FALSE, globalBuckets |-> <<>>, allUsers |-> <<>>,
     i |-> 1, j |-> 1,
     before |-> [buckets |-> {}, entries |-> {},
                 schema |-> [user_id |-> FALSE, not_null |-> FALSE,
                             name_unique |-> FALSE, user_name_unique |-> FALSE]],
     previous |-> "off", error |-> "", reported |-> {}]

\* the orders in which a SELECT without ORDER BY may return the rows S
Orderings(S) ==
    {s \in [1..Cardinality(S) -> S] : \A a, b \in DOMAIN s : a # b => s[a] # s[b]}

\* SELECT ... FROM buckets WHERE user_id IS NULL
globalBucketRows == {b \in buckets : b.user_id = NULL}

\* whether a unique index on buckets(user_id, name) can be built over `rows`
userNameDuplicates(rows) ==
    \E a \in rows : \E b \in rows : a.id # b.id /\ a.user_id = b.user_id /\ a.name = b.name

\* the lookup by name alone, among the owned buckets of any user
bucketOfAnyUser(userId, name) == {b \in buckets : b.user_id # NULL /\ b.name = name}

\* SELECT id FROM buckets WHERE user_id = .. AND name = .. (the statement
\* ends in LIMIT 1: any one of these rows may be the one returned)
userBucket(userId, name) == {b \in buckets : b.user_id = userId /\ b.name = name}

\* UPDATE entries SET bucket_id = toId WHERE user_id = .. AND bucket_id = fromId
relinked(rows, userId, fromId, toId) ==
    {IF e.user_id = userId /\ e.bucket_id = fromId THEN [e EXCEPT !.bucket_id = toId] ELSE e :
        e \in rows}

\* the UNIQUE(user_id, bucket_id, date) key rejects the update when two rows
\* would end up on one key
violatesEntryKey(rows, userId, fromId, toId) ==
    \E e \in rows : \E f \in rows :
        /\ e.user_id = userId /\ e.bucket_id = fromId
        /\ f.user_id = userId /\ f.bucket_id = toId
        /\ f.date = e.date

\* a scan that finds nothing
withoutScan == {}

\* SELECT ... FROM entries e JOIN buckets b ON b.id = e.bucket_id
\* WHERE b.user_id IS NULL
orphanedEntries ==
    {e \in entries : \E b \in buckets : b.id = e.bucket_id /\ b.user_id = NULL}

\* the catch at the end of the script: process.exit(1)
Failed(message) == mig' = [mig EXCEPT !.pc = "failed", !.error = message]

Goto(pc) == mig' = [mig EXCEPT !.pc = pc]

\* a lookup that never finds the column
columnNeverFound == FALSE

\* SELECT column_name FROM information_schema.columns WHERE table_name =
\* 'buckets' AND column_name = 'user_id': a row came back
columnFound == schema.user_id

\* the start of the script: the tables exist already; is buckets.user_id
\* there?  Past the else branch a dry run skips the CREATE UNIQUE INDEX.
startRun(DRY_RUN) ==
    /\ mig.pc \in {"off", "done", "failed"}
    /\ mig' = [notStarted EXCEPT
                 !.dryRun = DRY_RUN,
                 !.before = [buckets |-> buckets, entries |-> entries,
                             schema |-> schema],
                 !.previous = mig.pc,
                 !.pc = IF ~columnFound THEN "addColumn"
                        ELSE IF DRY_RUN THEN "seed" ELSE "ensureIndex"]
    /\ UNCHANGED <<app, nextSessionId, nextUserId,
                   users, sessions, buckets, entries, user_notes, nextBucketId, now, inflight, res,
                   schema>>

\* node scripts/migrate.js
colCheck == startRun(FALSE)

\* node scripts/migrate.js --dry-run
colCheckDryRun == startRun(TRUE)

\* ALTER TABLE buckets ADD COLUMN user_id; DROP INDEX IF EXISTS buckets_name_unique
addUserIdColumn ==
    /\ mig.pc = "addColumn"
    /\ schema' = IF mig.dryRun THEN schema
                 ELSE [schema EXCEPT !.user_id = TRUE, !.name_unique = FALSE]
    /\ Goto("read")
    /\ UNCHANGED <<app, nextSessionId, nextUserId,
                   users, sessions, buckets, entries, user_notes, nextBucketId, now, inflight, res>>

\* the two SELECTs, and the branch taken on what they return; the first
\* names the column user_id.  Of a dry run only the prints are left from
\* here to seedDefaultBuckets.
readGlobalBucketsAndUsers ==
    /\ mig.pc = "read"
    /\ IF ~schema.user_id
       THEN Failed("column user_id does not exist")
       ELSE \E gb \in Orderings(globalBucketRows) :
              \E us \in Orderings({u.id : u \in users}) :
                mig' = [mig EXCEPT
                          !.globalBuckets = gb, !.allUsers = us, !.i = 1, !.j = 1,
                          !.pc = IF mig.dryRun THEN "seed"
                                 ELSE IF Len(gb) > 0 /\ Len(us) > 0 THEN "clone"
                                 ELSE IF Len(gb) > 0 THEN "deleteNoUsers"
                                 ELSE "setNotNull"]
    /\ UNCHANGED <<app, nextSessionId, nextUserId,
                   users, sessions, buckets, entries, user_notes, nextBucketId, now, inflight, res,
                   schema>>

\* the loop counters after one more pass of `for user / for bucket`
advance(done) ==
    IF mig.j < Len(mig.globalBuckets) THEN [mig EXCEPT !.j = mig.j + 1]
    ELSE IF mig.i < Len(mig.allUsers) THEN [mig EXCEPT !.i = mig.i + 1, !.j = 1]
    ELSE [mig EXCEPT !.i = 1, !.j = 1, !.pc = done]

\* INSERT INTO buckets (user_id, name, sort_order) VALUES (user, bucket.name, ..)
cloneBucket ==
    /\ mig.pc = "clone"
    /\ LET userId == mig.allUsers[mig.i]
           bucket == mig.globalBuckets[mig.j]
       IN  IF \/ schema.user_name_unique
                   /\ violatesUserNameUnique(buckets, NULL, userId, bucket.name)
              \/ schema.name_unique /\ \E b \in buckets : b.name = bucket.name
           THEN Failed("duplicate key") /\ UNCHANGED <<buckets, nextBucketId>>
           ELSE /\ buckets' = buckets \cup
                      {[id |-> nextBucketId, user_id |-> userId, name |-> bucket.name,
                        sort_order |-> bucket.sort_order]}
                /\ nextBucketId' = nextBucketId + 1
                /\ mig' = advance("relink")
    /\ UNCHANGED <<app, nextSessionId, nextUserId,
                   users, sessions, entries, user_notes, now, inflight, res, schema>>

\* SELECT the user's bucket of that name, then UPDATE the user's entries
relinkEntries ==
    /\ mig.pc = "relink"
    /\ LET userId == mig.allUsers[mig.i]
           globalBucket == mig.globalBuckets[mig.j]
       IN  IF userBucket(userId, globalBucket.name) = {}
           THEN mig' = advance("safetyCheck") /\ UNCHANGED entries
           ELSE \E ub \in userBucket(userId, globalBucket.name) :
                  IF violatesEntryKey(entries, userId, globalBucket.id, ub.id)
                  THEN Failed("duplicate key") /\ UNCHANGED entries
                  ELSE /\ entries' = relinked(entries, userId, globalBucket.id, ub.id)
                       /\ mig' = advance("safetyCheck")
    /\ UNCHANGED <<app, nextSessionId, nextUserId,
                   users, sessions, buckets, user_notes, nextBucketId, now, inflight, res, schema>>

\* SAFETY CHECK: entries still referencing global buckets abort the run
safetyCheck ==
    /\ mig.pc = "safetyCheck"
    /\ IF orphanedEntries # {}
       THEN mig' = [mig EXCEPT !.pc = "failed",
                               !.error = "Cannot delete global buckets",
                               !.reported = orphanedEntries]
       ELSE Goto("delete")
    /\ UNCHANGED <<app, nextSessionId, nextUserId,
                   users, sessions, buckets, entries, user_notes, nextBucketId, now, inflight, res,
                   schema>>

\* DELETE FROM buckets WHERE user_id IS NULL, past the safety check
deleteGlobalBuckets ==
    /\ mig.pc = "delete"
    /\ buckets' = buckets \ globalBucketRows
    /\ entries' = cascadeEntries(entries, globalBucketRows)
    /\ Goto("setNotNull")
    /\ UNCHANGED <<app, nextSessionId, nextUserId,
                   users, sessions, user_notes, nextBucketId, now, inflight, res, schema>>

\* the same DELETE on the branch taken when no user exists
deleteGlobalBucketsNoUsers ==
    /\ mig.pc = "deleteNoUsers"
    /\ buckets' = buckets \ globalBucketRows
    /\ entries' = cascadeEntries(entries, globalBucketRows)
    /\ Goto("setNotNull")
    /\ UNCHANGED <<app, nextSessionId, nextUserId,
                   users, sessions, user_notes, nextBucketId, now, inflight, res, schema>>

\* ALTER TABLE buckets ALTER COLUMN user_id SET NOT NULL
setNotNull ==
    /\ mig.pc = "setNotNull"
    /\ IF globalBucketRows # {}
       THEN Failed("column contains null values") /\ UNCHANGED schema
       ELSE schema' = [schema EXCEPT !.not_null = TRUE] /\ Goto("createIndex")
    /\ UNCHANGED <<app, nextSessionId, nextUserId,
                   users, sessions, buckets, entries, user_notes, nextBucketId, now, inflight, res>>

\* CREATE UNIQUE INDEX IF NOT EXISTS buckets_user_name_unique ON buckets(user_id, name)
createUserNameIndex(from, to) ==
    /\ mig.pc = from
    /\ IF schema.user_name_unique THEN Goto(to) /\ UNCHANGED schema
       ELSE IF userNameDuplicates({b \in buckets : b.user_id # NULL})
       THEN Failed("could not create unique index") /\ UNCHANGED schema
       ELSE schema' = [schema EXCEPT !.user_name_unique = TRUE] /\ Goto(to)
    /\ UNCHANGED <<app, nextSessionId, nextUserId,
                   users, sessions, buckets, entries, user_notes, nextBucketId, now, inflight, res>>

\* ... at the end of the backfill
tightenIndex == createUserNameIndex("createIndex", "ensureIndex")

\* ... and once more on every run
ensureIndex == createUserNameIndex("ensureIndex", "seed")

\* SELECT u.id FROM users u LEFT JOIN buckets b ... HAVING COUNT(b.id) = 0
usersWithoutBuckets == {u.id : u \in {v \in users : bucketsOf(v.id) = {}}}

\* seedDefaultBuckets(): the default buckets for every user without any; the
\* SELECT joins on buckets.user_id, and a dry run skips the INSERTs
seedDefaultBuckets ==
    /\ mig.pc = "seed"
    /\ IF ~schema.user_id
       THEN Failed("column user_id does not exist") /\ UNCHANGED <<buckets, nextBucketId>>
       ELSE IF mig.dryRun
       THEN Goto("done") /\ UNCHANGED <<buckets, nextBucketId>>
       ELSE /\ \E order \in Orderings(usersWithoutBuckets) :
                 LET db == seedAll([buckets |-> buckets, nextBucketId |-> nextBucketId],
                                   order, 1)
                 IN  buckets' = db.buckets /\ nextBucketId' = db.nextBucketId
            /\ Goto("done")
    /\ UNCHANGED <<app, nextSessionId, nextUserId,
                   users, sessions, entries, user_notes, now, inflight, res, schema>>

\* ------------------------------------------------------------------ inputs

\* session cookies a request may carry: the token of each stored session
\* ("t3" is the expired one) and a token no session has
Tokens == {"t1", "t2", "t3", "tx"}

\* bucket ids a request names: the first bucket of each user as seeded, and
\* an id no bucket has
KnownIds == {1, Len(DEFAULT_BUCKETS) + 1, nextBucketId}

\* dates a request names: one that is out of the window from the start, two
\* that enter and leave it as the clock advances, one that never enters it
KnownDates == { toISODate(t) : t \in {0 - 3, 0, 2, MaxDay + 1} }

Months == { <<2024, 2>>, <<2024, 3>> }

\* the requests `reqs` as sent with each of the cookies `tokens`
WithCookie(reqs, tokens) ==
    { [f \in DOMAIN r \cup {"cookie"} |-> IF f = "cookie" THEN t ELSE r[f]] :
        r \in reqs, t \in tokens }

\* requests to /api/buckets
BucketCalls(ids, createNames, renameNames, sortOrders) ==
    { [method |-> m] : m \in {"GET", "POST", "PATCH"} }
        \cup { [method |-> "POST", body |-> [name |-> n]] : n \in createNames }
        \cup { [method |-> "PUT", body |-> [name |-> n]] : n \in renameNames }
        \cup { [method |-> "PUT", body |-> [id |-> i, name |-> n]] :
                  i \in ids, n \in renameNames }
        \cup { [method |-> "PUT", body |-> [id |-> i, sortOrder |-> o]] :
                  i \in ids, o \in sortOrders }
        \cup { [method |-> "DELETE", body |-> [id |-> i]] : i \in ids }
        \cup { [method |-> "DELETE", body |-> [name |-> n]] : n \in renameNames }

\* requests to /api/checkins
CheckinCalls(ids, dates, flags) ==
    { [method |-> m] : m \in {"GET", "POST", "PUT"} }
        \cup { [method |-> "GET", month |-> mo] : mo \in Months }
        \cup { [method |-> "POST", body |-> [bucketId |-> i]] : i \in ids }
        \cup { [method |-> "POST", body |-> [bucketId |-> i, date |-> d]] :
                  i \in ids, d \in dates }
        \cup { [method |-> "POST", body |-> [bucketId |-> i, date |-> d, checked |-> c]] :
                  i \in ids, d \in dates, c \in flags }

\* requests to /api/notes
NoteCalls(dates, notes) ==
    { [method |-> m] : m \in {"GET", "POST"} }
        \cup { [method |-> "POST", body |-> [date |-> d]] : d \in dates }
        \cup { [method |-> "POST", body |-> [date |-> d, notes |-> n]] :
                  d \in dates, n \in notes }

\* requests to /api/admin/reset, with the row order the users query returns
ResetCalls ==
    { [method |-> m, allUsers |-> o] : m \in {"GET", "POST"}, o \in { <<1, 2>>, <<2, 1>> } }

\* the caps of the model: the id sequence stays in bounds (a reset re-seeds
\* every user and is let through once the sequence is spent) ...
IdsWithinBounds ==
    /\ nextBucketId <= MaxBucketId + 1
    /\ nextBucketId' = nextBucketId + 1 => nextBucketId' <= MaxBucketId + 1

\* ... and so does the number of keys the entries table holds
RowsWithinBounds ==
    Cardinality({<<e.user_id, e.bucket_id, e.date>> : e \in entries'}) <= MaxEntries

\* ------------------------------------------------------------------ specification

\* The database after the migration and the first logins: two users, the
\* first one the administrator, each with the default buckets and a session;
\* an older session of the second user has expired and was not used since.
InitApi ==
    /\ users = { [id |-> 1, email |-> "ashwinb@gmail.com"],
                 [id |-> 2, email |-> "friend@example.com"] }
    /\ now = 0
    /\ sessions = { [id |-> 1, user_id |-> 2, token_hash |-> hashToken("t3"),
                     expires_at |-> now - 1],
                    [id |-> 2, user_id |-> 1, token_hash |-> hashToken("t1"),
                     expires_at |-> now + SESSION_DAYS],
                    [id |-> 3, user_id |-> 2, token_hash |-> hashToken("t2"),
                     expires_at |-> now + SESSION_DAYS] }
    /\ LET db == seedAll([buckets |-> {}, nextBucketId |-> 1], <<1, 2>>, 1)
       IN  buckets = db.buckets /\ nextBucketId = db.nextBucketId
    /\ entries = {}
    /\ user_notes = {}
    /\ res = [status |-> 0, error |-> ""]
    /\ schema = [user_id |-> TRUE, not_null |-> TRUE, name_unique |-> FALSE,
                 user_name_unique |-> TRUE]
    /\ mig = notStarted
    /\ app = signedOut
    /\ inflight = idle
    /\ nextSessionId = 4
    /\ nextUserId = 3

\* --- Spec: every endpoint, called with and without a session

\* the calls made without a session: every method, with and without a body
ApiBucketCalls == BucketCalls({1}, {<<" ", "a", " ">>}, {<<" ", "a", " ">>}, {})
ApiCheckinCalls == CheckinCalls({1}, {toISODate(0)}, {FALSE})
ApiNoteCalls == NoteCalls({toISODate(0)}, {<<" ", "n">>})
ApiResetCalls == {r \in ResetCalls : r.allUsers = <<1, 2>>}

\* ... sent with no cookie, with the cookie of the expired session and with a
\* cookie no session has
Unauthenticated(calls) == calls \cup WithCookie(calls, {"t3", "tx"})

\* the calls made by the two users: the ones that write, on the first bucket
ApiBucketRequests ==
    Unauthenticated(ApiBucketCalls)
        \cup WithCookie({r \in ApiBucketCalls : "body" \in DOMAIN r}, {"t1", "t2"})
ApiCheckinRequests ==
    Unauthenticated(ApiCheckinCalls)
        \cup WithCookie({r \in ApiCheckinCalls : "body" \in DOMAIN r}, {"t1", "t2"})
ApiNoteRequests ==
    Unauthenticated(ApiNoteCalls)
        \cup WithCookie({r \in ApiNoteCalls : "body" \in DOMAIN r}, {"t1"})
ApiResetRequests ==
    Unauthenticated(ApiResetCalls) \cup WithCookie(ApiResetCalls, {"t1", "t2"})

Buckets ==
    /\ \E req \in ApiBucketRequests : BucketsHandler(req) /\ IdsWithinBounds
    /\ UNCHANGED <<app, inflight>>

Checkins ==
    /\ \E req \in ApiCheckinRequests : CheckinsHandler(req) /\ RowsWithinBounds
    /\ UNCHANGED <<app, inflight>>

Notes ==
    /\ \E req \in ApiNoteRequests : NotesHandler(req)
    /\ UNCHANGED <<app, inflight>>

AdminReset ==
    /\ \E req \in ApiResetRequests : ResetHandler(req) /\ IdsWithinBounds
    /\ UNCHANGED <<app, inflight>>

Next == Buckets \/ Checkins \/ Notes \/ AdminReset

Spec == InitApi /\ [][Next]_vars

\* --- SpecBuckets: the bucket registry under create, rename, delete and reset

\* names the first user creates buckets under: three fresh ones (one to be
\* trimmed) and a blank one; the second user takes one of them as well, and
\* the name of a default bucket
RegistryNames == { <<" ", "a", " ">>, <<"b">>, <<"d">>, <<" ">> }

RegistryBucketRequests ==
    WithCookie(BucketCalls(KnownIds, RegistryNames, {<<" ", "a", " ">>}, {}), {"t1"})
        \cup WithCookie(BucketCalls(KnownIds, {<<" ", "a", " ">>, DEFAULT_BUCKETS[1].name},
                                    {<<" ", "a", " ">>}, {}), {"t2"})

RegistryResetRequests == WithCookie(ResetCalls, {"t1", "t2"})

RegistryBuckets ==
    /\ \E req \in RegistryBucketRequests : BucketsHandler(req) /\ IdsWithinBounds
    /\ UNCHANGED <<app, inflight>>

RegistryReset ==
    /\ \E req \in RegistryResetRequests : ResetHandler(req) /\ IdsWithinBounds
    /\ UNCHANGED <<app, inflight>>

NextBuckets == RegistryBuckets \/ RegistryReset

SpecBuckets == InitApi /\ [][NextBuckets]_vars

\* --- SpecWindow: entry upserts while the clock advances

WindowCheckinRequests ==
    WithCookie(CheckinCalls({1}, KnownDates, {FALSE})
                  \cup CheckinCalls({nextBucketId}, {toISODate(0)}, {}), {"t1", "t2"})

WindowCheckins ==
    /\ \E req \in WindowCheckinRequests : CheckinsHandler(req) /\ RowsWithinBounds
    /\ UNCHANGED <<app, inflight>>

NextWindow == WindowCheckins \/ Tick

SpecWindow == InitApi /\ [][NextWindow]_vars

\* --- SpecEntries: the entry ledger under check-ins, bucket creation and
\* deletion, and reset

LedgerCheckinRequests ==
    WithCookie(CheckinCalls(KnownIds, {toISODate(0)}, {FALSE}), {"t1", "t2"})

LedgerBucketRequests ==
    WithCookie(BucketCalls(KnownIds, {<<" ", "a", " ">>}, {}, {}), {"t1", "t2"})

LedgerCheckins ==
    /\ \E req \in LedgerCheckinRequests : CheckinsHandler(req) /\ RowsWithinBounds
    /\ UNCHANGED <<app, inflight>>

LedgerBuckets ==
    /\ \E req \in LedgerBucketRequests : BucketsHandler(req) /\ IdsWithinBounds
    /\ UNCHANGED <<app, inflight>>

LedgerReset ==
    /\ \E req \in RegistryResetRequests : ResetHandler(req) /\ IdsWithinBounds
    /\ UNCHANGED <<app, inflight>>

NextEntries == LedgerCheckins \/ LedgerBuckets \/ LedgerReset

SpecEntries == InitApi /\ [][NextEntries]_vars

\* --- SpecMigrate: the migration script run on a legacy database

\* the names of the global buckets
LegacyNames == { DEFAULT_BUCKETS[1].name, DEFAULT_BUCKETS[2].name }

LegacyDates == { toISODate(0) }

\* the sets of at most n of the rows
RECURSIVE SubsetsUpTo(_, _)
SubsetsUpTo(rows, n) ==
    IF n = 0 THEN {{}}
    ELSE LET smaller == SubsetsUpTo(rows, n - 1)
         IN  smaller \cup {S \cup {r} : S \in smaller, r \in rows}

\* A database of the application before per-user buckets: no buckets.user_id
\* column; any number of users; global buckets created through the legacy
\* POST /api/buckets, whose names are unique when the index
\* buckets_name_unique exists; entries written by the users' check-ins, one
\* row per (user, bucket, date).
InitLegacy ==
    /\ users \in { {}, {[id |-> 1, email |-> "ashwinb@gmail.com"]},
                   {[id |-> 1, email |-> "ashwinb@gmail.com"],
                    [id |-> 2, email |-> "friend@example.com"]} }
    /\ schema \in { [user_id |-> FALSE, not_null |-> FALSE, name_unique |-> unique,
                     user_name_unique |-> FALSE] : unique \in BOOLEAN }
    /\ \E k \in 0..MaxLegacyBuckets : \E names \in [1..k -> LegacyNames] :
         /\ schema.name_unique => \A a, b \in 1..k : a # b => names[a] # names[b]
         /\ buckets = {[id |-> id, user_id |-> NULL, name |-> names[id], sort_order |-> id] :
                          id \in 1..k}
         /\ nextBucketId = k + 1
    /\ entries \in
         {rows \in SubsetsUpTo({[user_id |-> u.id, bucket_id |-> b.id, date |-> d,
                                 checked |-> c] :
                                   u \in users, b \in buckets, d \in LegacyDates,
                                   c \in BOOLEAN}, MaxLegacyEntries) :
            \A e \in rows : \A f \in rows :
                (e.user_id = f.user_id /\ e.bucket_id = f.bucket_id /\ e.date = f.date)
                    => e = f}
    /\ sessions = {}
    /\ user_notes = {}
    /\ now = 0
    /\ res = [status |-> 0, error |-> ""]
    /\ mig = notStarted
    /\ app = signedOut
    /\ inflight = idle
    /\ nextSessionId = 1
    /\ nextUserId = Cardinality(users) + 1

NextMigrate ==
    \/ colCheck
    \/ addUserIdColumn
    \/ readGlobalBucketsAndUsers
    \/ cloneBucket
    \/ relinkEntries
    \/ safetyCheck
    \/ deleteGlobalBuckets
    \/ deleteGlobalBucketsNoUsers
    \/ setNotNull
    \/ tightenIndex
    \/ ensureIndex
    \/ seedDefaultBuckets

SpecMigrate == InitLegacy /\ [][NextMigrate]_vars

\* --- SpecResume: runs of the migration with the operator mending the data
\* after a run that failed

\* the buckets of a user that repeat the name of an older bucket of the user
repeatedBuckets ==
    {b \in buckets : b.user_id # NULL /\
        \E a \in buckets : a.user_id = b.user_id /\ a.name = b.name /\ a.id < b.id}

\* the operator removes what made the run fail: the entries that are still
\* on owner-less buckets, and the buckets that repeat a name (their entries
\* go with them)
removeCause ==
    /\ mig.pc = "failed"
    /\ orphanedEntries # {} \/ repeatedBuckets # {}
    /\ buckets' = buckets \ repeatedBuckets
    /\ entries' = cascadeEntries(entries \ orphanedEntries, repeatedBuckets)
    /\ UNCHANGED <<app, nextSessionId, nextUserId,
                   users, sessions, user_notes, nextBucketId, now, inflight, res, schema, mig>>

NextResume == NextMigrate \/ removeCause

SpecResume == InitLegacy /\ [][NextResume]_vars

\* --- SpecDryRun: runs of the migration with and without --dry-run

NextDryRun == NextMigrate \/ colCheckDryRun

SpecDryRun == InitLegacy /\ [][NextDryRun]_vars

\* --- SpecNotes: the notes of both users on two dates

\* the texts sent: two that differ, one of them to be trimmed, a blank one
\* and the empty one
NoteTexts == { <<" ", "n", " ">>, <<"m">>, <<" ", " ">>, <<>> }

JournalNoteRequests ==
    WithCookie(NoteCalls({toISODate(0), toISODate(1)}, NoteTexts), {"t1", "t2"})

JournalNotes ==
    /\ \E req \in JournalNoteRequests : NotesHandler(req)
    /\ UNCHANGED <<app, inflight>>

NextNotes == JournalNotes

SpecNotes == InitApi /\ [][NextNotes]_vars

\* --- SpecSessions: logins, logouts and requests as the sessions age

\* The database after the migration, before anyone has logged in.
InitSessions ==
    /\ users = { [id |-> 1, email |-> "ashwinb@gmail.com"],
                 [id |-> 2, email |-> "friend@example.com"] }
    /\ now = 0
    /\ sessions = {}
    /\ nextSessionId = 1
    /\ nextUserId = 3
    /\ LET db == seedAll([buckets |-> {}, nextBucketId |-> 1], <<1, 2>>, 1)
       IN  buckets = db.buckets /\ nextBucketId = db.nextBucketId
    /\ entries = {}
    /\ user_notes = {}
    /\ res = [status |-> 0, error |-> ""]
    /\ schema = [user_id |-> TRUE, not_null |-> TRUE, name_unique |-> FALSE,
                 user_name_unique |-> TRUE]
    /\ mig = notStarted
    /\ app = signedOut
    /\ inflight = idle

\* the moments at which something happens: two creation times, and for each
\* the last day its session lasts and the day after
Instants == {0, 1, SESSION_DAYS, SESSION_DAYS + 1, SESSION_DAYS + 2}

\* cookies a request carries: the token of a session handed out so far, or
\* one the generator never drew
IssuedTokens == { randomBytes(n) : n \in 0 .. nextSessionId - 1 }

\* what the sign-in page posts: a credential of either user, one whose
\* profile has no email, a forged one, none at all, or the wrong method
LoginRequests ==
    { [method |-> "POST", credential |-> [forged |-> FALSE, email |-> e]] :
        e \in {"ashwinb@gmail.com", "friend@example.com", ""} }
        \cup { [method |-> "POST", credential |-> [forged |-> TRUE, email |-> ""]],
               [method |-> "POST"], [method |-> "GET"] }

Login ==
    /\ nextSessionId <= MaxSessions
    /\ \E req \in LoginRequests : LoginHandler(req)
    /\ UNCHANGED <<app, inflight>>

Logout ==
    /\ \E req \in WithCookie({[method |-> "POST"], [method |-> "GET"]}, IssuedTokens) :
           LogoutHandler(req)
    /\ UNCHANGED <<app, inflight>>

\* a request to an endpoint that asks who is calling
Visit ==
    /\ \E req \in WithCookie({[method |-> "GET"], [method |-> "PATCH"]}, IssuedTokens) :
           BucketsHandler(req)
    /\ UNCHANGED <<app, inflight>>

\* the server clock moves on to a later instant
Elapse ==
    /\ \E t \in Instants : t > now /\ now' = t
    /\ UNCHANGED <<app, inflight, nextSessionId, nextUserId,
                   users, sessions, buckets, entries, user_notes, nextBucketId, res,
                   schema, mig>>

NextSessions == Login \/ Logout \/ Visit \/ Elapse

SpecSessions == InitSessions /\ [][NextSessions]_vars

\* --- SpecSignup: logins of known and of new accounts, and what they own

\* what the sign-in page posts: a credential of a user who exists, of an
\* account the application has not seen, one without email, or the wrong
\* method
SignupRequests ==
    { [method |-> "POST", credential |-> [forged |-> FALSE, email |-> e]] :
        e \in {"friend@example.com", "new@example.com", ""} }
        \cup { [method |-> "GET"] }

Signup ==
    /\ nextSessionId <= MaxSessions
    /\ \E req \in SignupRequests : LoginHandler(req)
    /\ UNCHANGED <<app, inflight>>

\* the signed-in users list their buckets, add to them, delete the second
\* user's first two and move the third to the front
SignupBucketRequests ==
    WithCookie({ [method |-> "GET"],
                 [method |-> "POST", body |-> [name |-> <<"x">>]],
                 [method |-> "POST", body |-> [name |-> <<"y">>]] }
                  \cup { [method |-> "DELETE", body |-> [id |-> i]] : i \in {4, 5} }
                  \cup { [method |-> "PUT", body |-> [id |-> 6, sortOrder |-> 0 - 2]] },
               IssuedTokens)

SignupBuckets ==
    /\ nextBucketId <= MaxBucketId
    /\ \E req \in SignupBucketRequests : BucketsHandler(req)
    /\ UNCHANGED <<app, inflight>>

NextSignup == Signup \/ SignupBuckets

SpecSignup == InitSessions /\ [][NextSignup]_vars

\* --- SpecStats: the page opened on a database the handlers have written

\* A database with the two users and their sessions, on the day before the
\* clock's last: the first user owns up to MaxStatsBuckets buckets and the
\* second one bucket; the entries are check-ins of the last three days, one
\* checked row per (user, bucket, date), each on a bucket that exists (the
\* check-in handler does not ask whose).
InitStats ==
    /\ users = { [id |-> 1, email |-> "ashwinb@gmail.com"],
                 [id |-> 2, email |-> "friend@example.com"] }
    /\ now = MaxDay - 1
    /\ sessions = { [id |-> 1, user_id |-> 2, token_hash |-> hashToken("t3"),
                     expires_at |-> now - 1],
                    [id |-> 2, user_id |-> 1, token_hash |-> hashToken("t1"),
                     expires_at |-> now + SESSION_DAYS],
                    [id |-> 3, user_id |-> 2, token_hash |-> hashToken("t2"),
                     expires_at |-> now + SESSION_DAYS] }
    /\ \E k \in 0..MaxStatsBuckets :
         /\ buckets = {[id |-> id, user_id |-> IF id <= k THEN 1 ELSE 2,
                         name |-> DEFAULT_BUCKETS[IF id <= k THEN id ELSE 1].name,
                         sort_order |-> IF id <= k THEN id ELSE 1] : id \in 1..(k + 1)}
         /\ nextBucketId = k + 2
    /\ entries \in
         SubsetsUpTo({[user_id |-> u.id, bucket_id |-> b.id, date |-> d,
                       checked |-> TRUE] :
                         u \in users, b \in buckets, d \in editableDates},
                     MaxStatsEntries)
    /\ user_notes = {}
    /\ res = [status |-> 0, error |-> ""]
    /\ schema = [user_id |-> TRUE, not_null |-> TRUE, name_unique |-> FALSE,
                 user_name_unique |-> TRUE]
    /\ mig = notStarted
    /\ app = signedOut
    /\ inflight = idle
    /\ nextSessionId = 4
    /\ nextUserId = 3

\* the user a request's cookie stands for, read off the sessions table:
\* NULL when there is no cookie, no session with the token, or only an
\* expired one
callerOf(req) ==
    IF "cookie" \notin DOMAIN req THEN NULL
    ELSE LET live == {s \in sessions : s.token_hash = hashToken(req.cookie)
                                         /\ s.expires_at >= now}
         IN  IF live = {} THEN NULL ELSE (CHOOSE s \in live : TRUE).user_id

\* the page is opened in a browser that holds one of the cookies
Open == \E token \in Tokens : init(token)

PickMonth == \E m \in Months : setMonth(m)

PickDate == \E date \in editableDates : setSelectedDate(date)

\* a checkbox of the check-in view is clicked: the view lists the user's own
\* buckets, and the browser sends the cookie of the user's session
Toggle ==
    \E token \in Tokens : \E b \in getBucketsForUser(app.user) : \E checked \in BOOLEAN :
        /\ callerOf([cookie |-> token]) = app.user
        /\ handleToggle(token, b.id, checked)
        /\ Cardinality({<<e.user_id, e.bucket_id, e.date>> : e \in entries'})
              <= MaxStatsEntries

NextStats == Open \/ PickMonth \/ PickDate \/ Toggle \/ Tick

SpecStats == InitStats /\ [][NextStats]_vars

\* --- SpecCalendar: the page turned to months of many years

\* years before and after the two-digit ones, leap years, century years that
\* are and are not leap years
CalendarYears == {0, 1, 4, 99, 100, 1900, 2000, 2023, 2024, 2100}

CalendarKeys == { <<y, m>> : y \in CalendarYears, m \in 1 .. 12 }

Turn == \E m \in CalendarKeys : setMonth(m)

NextCalendar == Open \/ Turn

SpecCalendar == InitApi /\ [][NextCalendar]_vars

\* --- SpecRace: create requests of one user, their statements interleaved

\* the number the server gives a request it starts to work on
freeSlot == CHOOSE id \in 1..MaxInFlight :
                /\ \A c \in inflight.creates : c.id # id
                /\ \A k \in 1..(id - 1) : \E c \in inflight.creates : c.id = k

\* POST /api/buckets as far as its count query: the session lookup, the name
\* test, then SELECT COUNT(*) and the limit test; a request that passes goes
\* on to its max-sort query
countRows(req) ==
    LET auth == getUserFromRequest(req)
        userId == auth.user_id
    IN  /\ sessions' = auth.sessions
        /\ IF userId = NULL
           THEN Respond(Reply(401, "Unauthorized")) /\ UNCHANGED inflight
           ELSE IF "name" \notin DOMAIN req.body \/ trim(req.body.name) = <<>>
           THEN Respond(Reply(400, "Bucket name required")) /\ UNCHANGED inflight
           ELSE IF limitReached(userId)
           THEN Respond(Reply(400, "Maximum 5 habits allowed")) /\ UNCHANGED inflight
           ELSE /\ inflight' = [inflight EXCEPT !.creates = @ \cup
                                   {[id |-> freeSlot, user_id |-> userId,
                                     name |-> trim(req.body.name), pc |-> "maxRows",
                                     nextOrder |-> 0]}]
                /\ UNCHANGED <<buckets, entries, user_notes, nextBucketId, res>>
        /\ UNCHANGED <<users, nextUserId, nextSessionId, now, schema, mig, app>>

\* SELECT COALESCE(MAX(sort_order), 0) of the request `c`, and nextOrder
maxRows(c) ==
    /\ c.pc = "maxRows"
    /\ inflight' = [inflight EXCEPT !.creates = (@ \ {c}) \cup
                       {[c EXCEPT !.pc = "insert",
                                  !.nextOrder = maxSortOrder(c.user_id) + 1]}]
    /\ UNCHANGED <<users, sessions, buckets, entries, user_notes, nextBucketId, nextSessionId,
                   nextUserId, now, res, schema, mig, app>>

\* the INSERT of the request `c` and its answer
insertRow(c) ==
    /\ c.pc = "insert"
    /\ Respond(insertBucket(c.user_id, c.name, c.nextOrder))
    /\ inflight' = [inflight EXCEPT !.creates = @ \ {c}]
    /\ UNCHANGED <<users, sessions, nextSessionId, nextUserId, now, schema, mig, app>>

\* creates by the first user and by a caller without a session, with three
\* names, a blank one and none
RaceRequests ==
    WithCookie({ [method |-> "POST", body |-> [name |-> n]] :
                    n \in {<<"x">>, <<"y">>, <<"z">>, <<" ">>} }
                 \cup {[method |-> "POST", body |-> [id |-> 1]]},
               {"t1", "tx"})

Arrive ==
    /\ Cardinality(inflight.creates) < MaxInFlight
    /\ \E req \in RaceRequests : countRows(req)

Proceed == \E c \in inflight.creates : maxRows(c)

Insert == \E c \in inflight.creates : insertRow(c) /\ IdsWithinBounds

\* the first user deletes the first bucket seeded for them
RaceDelete ==
    /\ \E req \in WithCookie({[method |-> "DELETE", body |-> [id |-> 1]]}, {"t1"}) :
          BucketsHandler(req)
    /\ UNCHANGED <<app, inflight>>

NextRace == Arrive \/ Proceed \/ Insert \/ RaceDelete

SpecRace == InitApi /\ [][NextRace]_vars

\* --- SpecToggles: check-in requests of one page, under way at the same time

\* the value the checkbox of the bucket shows for the date: userCheckedBuckets
isChecked(bucketId, date) ==
    \E e \in app.entries : /\ e.userId = app.user /\ e.bucketId = bucketId
                           /\ e.date = date /\ e.checked

\* handleToggle(bucketId, checked) as far as its await: the optimistic update,
\* and the POST is sent under the session cookie `token`
toggleSent(token, bucketId, checked) ==
    /\ app.user # NULL
    /\ app' = [app EXCEPT !.entries = toggled(app.entries, app.user, bucketId,
                                              app.selectedDate, checked)]
    /\ inflight' = [inflight EXCEPT !.toggles = @ \cup
                       {[id |-> Cardinality(inflight.toggles) + 1, cookie |-> token,
                         bucketId |-> bucketId, checked |-> checked,
                         date |-> app.selectedDate, pc |-> "sent", status |-> 0]}]
    /\ UNCHANGED <<users, sessions, buckets, entries, user_notes, nextBucketId, nextSessionId,
                   nextUserId, now, res, schema, mig>>

\* the server takes up the request `t`: POST /api/checkins
toggleServed(t) ==
    /\ t.pc = "sent"
    /\ CheckinsHandler([method |-> "POST", cookie |-> t.cookie,
                        body |-> [bucketId |-> t.bucketId, checked |-> t.checked,
                                  date |-> t.date]])
    /\ inflight' = [inflight EXCEPT !.toggles = (@ \ {t}) \cup
                       {[t EXCEPT !.pc = "served", !.status = res'.status]}]
    /\ UNCHANGED app

\* handleToggle past its await: the answer to the request `t` is in; an error
\* makes the page load the month again
toggleAnswered(t) ==
    /\ t.pc = "served"
    /\ app' = IF t.status = 200 THEN app ELSE loaded(app, app.month, buckets, entries)
    /\ inflight' = [inflight EXCEPT !.toggles = (@ \ {t}) \cup {[t EXCEPT !.pc = "done"]}]
    /\ UNCHANGED <<users, sessions, buckets, entries, user_notes, nextBucketId, nextSessionId,
                   nextUserId, now, res, schema, mig>>

\* a checkbox of the check-in view is clicked, whether or not an earlier
\* request is still under way: the box is given its new value
Click ==
    /\ Cardinality(inflight.toggles) < MaxToggles
    /\ \E token \in Tokens : \E b \in getBucketsForUser(app.user) :
          /\ callerOf([cookie |-> token]) = app.user
          /\ b.sortOrder <= 2
          /\ toggleSent(token, b.id, ~isChecked(b.id, app.selectedDate))

Deliver == \E t \in inflight.toggles : toggleServed(t)

Answer == \E t \in inflight.toggles : toggleAnswered(t)

NextToggles == Open \/ Click \/ Deliver \/ Answer \/ Tick

SpecToggles == InitApi /\ [][NextToggles]_vars

\* ------------------------------------------------------------------ requests, as the properties see them

\* PUT/POST bodies that carry a usable name
namesBucket(req) ==
    /\ "body" \in DOMAIN req
    /\ "name" \in DOMAIN req.body
    /\ trim(req.body.name) # <<>>

\* a create or a rename that would give the caller a second bucket of that name
takesUsedName(req) ==
    /\ req.method \in {"POST", "PUT"}
    /\ namesBucket(req)
    /\ LET mine == bucketsOf(callerOf(req))
           name == trim(req.body.name)
       IN  \/ /\ req.method = "POST"
              /\ \E b \in mine : b.name = name
           \/ /\ req.method = "PUT"
              /\ "id" \in DOMAIN req.body
              /\ \E b \in mine : b.id = req.body.id
              /\ \E b \in mine : b.id # req.body.id /\ b.name = name

tablesUnchanged ==
    /\ buckets' = buckets
    /\ entries' = entries
    /\ user_notes' = user_notes

\* ------------------------------------------------------------------ properties of the bucket registry

\* C1: in every state reached by bucket create, rename, delete and admin-reset
\* requests of any users, each run to completion, every user owns at most
\* 5 buckets.
AtMostFiveBuckets == \A u \in users : Cardinality(bucketsOf(u.id)) <= 5

\* a user holds five buckets and a further create has just been refused
FiveBucketsCreateRefused ==
    /\ \E u \in users : Cardinality(bucketsOf(u.id)) = 5
    /\ res = [status |-> 400, error |-> "Maximum 5 habits allowed"]

noNameTwice(rows) ==
    \A a \in rows : \A b \in rows : (a.user_id = b.user_id /\ a.name = b.name) => a.id = b.id

\* C2: no user ever owns two buckets of one name; a create or a rename that
\* would give the caller a second bucket with a (trimmed) name already in use
\* is not answered 200 and leaves every table as it was.
UniqueNamesKept ==
    /\ noNameTwice(buckets)
    /\ [][ /\ noNameTwice(buckets')
           /\ \/ res'.status # 200 /\ tablesUnchanged
              \/ \A req \in RegistryBucketRequests :
                    ~(takesUsedName(req) /\ BucketsHandler(req)) ]_vars

\* a request has just failed on the name index while the user holds the
\* bucket created under the name "a"
UsedNameRefused ==
    /\ res.status = 500
    /\ \E b \in buckets : b.name = <<"a">> /\ b.id >= 7

\* ------------------------------------------------------------------ properties of the entry ledger

\* C3: every entry references a bucket owned by the entry's own user (an
\* upsert naming another user's bucket stores no row).
EntryBucketOwnedByUser ==
    \A e \in entries : \E b \in buckets : b.id = e.bucket_id /\ b.user_id = e.user_id

\* an entry upsert: a POST that carries both required fields
isUpsert(req) ==
    /\ req.method = "POST"
    /\ "body" \in DOMAIN req
    /\ "bucketId" \in DOMAIN req.body
    /\ "date" \in DOMAIN req.body

\* the day on which the clock shows `date`
dayNumber(date) == CHOOSE t \in (0 - 3)..(MaxDay + 1) : toISODate(t) = date

\* the flag an upsert asks for (true when the field is absent)
requestedFlag(req) == IF "checked" \in DOMAIN req.body THEN req.body.checked ELSE TRUE

rowsFor(rows, userId, bucketId, date) ==
    {e \in rows : e.user_id = userId /\ e.bucket_id = bucketId /\ e.date = date}

\* C4: an upsert for date D made on server day T is accepted iff
\* T-2 <= D <= T, with T the clock at the time of the call (for a bucket that
\* exists, the row is then stored); outside the window, so from day D+3 on,
\* it is answered with an error and the ledger is unchanged.
WindowDecidesUpsert ==
    [][ \A req \in WindowCheckinRequests :
          (isUpsert(req) /\ CheckinsHandler(req))
            => LET d == dayNumber(req.body.date)
               IN  IF now - 2 <= d /\ d <= now
                   THEN req.body.bucketId \in bucketIds
                          => /\ res'.status = 200
                             /\ rowsFor(entries', callerOf(req), req.body.bucketId,
                                        req.body.date) # {}
                   ELSE /\ res'.status = 400
                        /\ res'.error # ""
                        /\ entries' = entries ]_vars

\* three days on, an upsert is refused for its date while a row written on
\* day 0 for day 0 is still in the ledger
WindowMovedOn ==
    /\ now >= 3
    /\ res = [status |-> 400, error |-> "Can only edit entries for today and past 2 days"]
    /\ \E e \in entries : e.date = toISODate(0)

oneRowPerKey(rows) ==
    \A a \in rows : \A b \in rows :
        (a.user_id = b.user_id /\ a.bucket_id = b.bucket_id /\ a.date = b.date) => a = b

\* C5: whatever upserts were accepted on a key (user, bucket, date), the key
\* has exactly one row, and its flag is that of the upsert applied last; the
\* other keys keep their rows.
OneRowLastWriteWins ==
    /\ oneRowPerKey(entries)
    /\ [][ /\ oneRowPerKey(entries')
           /\ \/ res'.status # 200
              \/ \A req \in WindowCheckinRequests :
                   (isUpsert(req) /\ CheckinsHandler(req))
                     => LET u == callerOf(req)
                            b == req.body.bucketId
                            d == req.body.date
                        IN  /\ rowsFor(entries', u, b, d) =
                                 {[user_id |-> u, bucket_id |-> b, date |-> d,
                                   checked |-> requestedFlag(req)]}
                            /\ entries' \ rowsFor(entries', u, b, d) =
                                 entries \ rowsFor(entries, u, b, d) ]_vars

\* an accepted upsert has just left the key's single row unchecked
UncheckedRowWritten ==
    /\ res.status = 200
    /\ \E e \in entries : ~e.checked /\ rowsFor(entries, e.user_id, e.bucket_id, e.date) = {e}

\* C6: every entry, and every row a listForMonth returns, references a bucket
\* that exists; a successful delete of bucket B leaves no entry with B's id;
\* and an id once deleted is never handed out again, so no later listing
\* shows it.
NoEntryOfDeletedBucket ==
    /\ [](\A e \in entries : e.bucket_id \in bucketIds)
    /\ [](\A month \in Months : \A e \in listForMonth(month) : e.bucket_id \in bucketIds)
    /\ [][ /\ nextBucketId' >= nextBucketId
           /\ \A id \in bucketIds' : id \in bucketIds \/ id >= nextBucketId
           /\ \A req \in LedgerBucketRequests :
                (/\ req.method = "DELETE"
                 /\ "body" \in DOMAIN req
                 /\ "id" \in DOMAIN req.body
                 /\ BucketsHandler(req)
                 /\ res'.status = 200)
                  => /\ req.body.id \notin bucketIds'
                     /\ \A e \in entries' : e.bucket_id # req.body.id ]_vars

\* the first user's first bucket is deleted and a ledger row of the second
\* user's bucket is still there
BucketDeletedLedgerKept ==
    /\ 1 \notin bucketIds
    /\ \E e \in entries : e.bucket_id = 4

\* ------------------------------------------------------------------ properties of every endpoint

\* the requests of Spec, each with the endpoint it is sent to
ApiCalls ==
    ({"buckets"} \X ApiBucketRequests) \cup ({"checkins"} \X ApiCheckinRequests)
        \cup ({"notes"} \X ApiNoteRequests) \cup ({"reset"} \X ApiResetRequests)

Serve(call) ==
    CASE call[1] = "buckets" -> BucketsHandler(call[2])
      [] call[1] = "checkins" -> CheckinsHandler(call[2])
      [] call[1] = "notes" -> NotesHandler(call[2])
      [] call[1] = "reset" -> ResetHandler(call[2])

\* the rows a user owns
rowsOwned(bucketRows, entryRows, noteRows, userId) ==
    << {b \in bucketRows : b.user_id = userId},
       {e \in entryRows : e.user_id = userId},
       {n \in noteRows : n.user_id = userId} >>

\* C7: a bucket, entry or note request under user U's session leaves the
\* buckets, entries and notes of every other user as they were.
OtherUsersRowsUntouched ==
    [][ \A call \in ApiCalls :
          (call[1] # "reset" /\ Serve(call))
            => \A v \in users :
                 v.id # callerOf(call[2])
                   => rowsOwned(buckets', entries', user_notes', v.id)
                        = rowsOwned(buckets, entries, user_notes, v.id) ]_vars

\* the methods each endpoint serves
servedMethods(endpoint) ==
    CASE endpoint = "buckets" -> {"GET", "POST", "PUT", "DELETE"}
      [] endpoint = "checkins" -> {"GET", "POST"}
      [] endpoint = "notes" -> {"POST"}
      [] endpoint = "reset" -> {"POST"}

\* C8 as stated: a request without a session token, with an unknown one or
\* with an expired one is answered 401 and changes no bucket, entry or note.
NoSessionAnswered401 ==
    [][ \/ res'.status = 401 /\ tablesUnchanged
        \/ \A call \in ApiCalls : ~(callerOf(call[2]) = NULL /\ Serve(call)) ]_vars

\* C8: a request without a session token, with an unknown one or with an
\* expired one is answered 401 when its method is one the endpoint serves and
\* 405 otherwise, and changes no bucket, entry or note.
NoSessionAnswered401Or405 ==
    [][ \A call \in ApiCalls :
          (callerOf(call[2]) = NULL /\ Serve(call))
            => /\ res'.status = (IF call[2].method \in servedMethods(call[1])
                                 THEN 401 ELSE 405)
               /\ tablesUnchanged
               /\ nextBucketId' = nextBucketId ]_vars

\* the expired session was presented, refused and its row removed
ExpiredSessionRefused ==
    /\ res = [status |-> 401, error |-> "Unauthorized"]
    /\ \A s \in sessions : s.token_hash # hashToken("t3")

\* ------------------------------------------------------------------ properties of the migration

\* the ids of the buckets that had no owner when the run began
legacyIds == {b.id : b \in {c \in mig.before.buckets : c.user_id = NULL}}

\* the entries that reference one of them
referencingLegacy == {e \in entries : e.bucket_id \in legacyIds \cap bucketIds}

nameBefore(id) == (CHOOSE b \in mig.before.buckets : b.id = id).name

\* C10: when a run has completed, every entry stored before it is stored
\* with the same user, date and flag, on a bucket that its user owns and
\* that has the name of the bucket the entry referenced before; no entry is
\* gone and none is added.
CompletedRunKeepsEntries ==
    (mig.pc = "done"
         => /\ Cardinality(entries) = Cardinality(mig.before.entries)
            /\ \A old \in mig.before.entries :
                 \E e \in entries :
                   /\ e.user_id = old.user_id
                   /\ e.date = old.date
                   /\ e.checked = old.checked
                   /\ \E b \in buckets :
                        /\ b.id = e.bucket_id
                        /\ b.user_id = e.user_id
                        /\ b.name = nameBefore(old.bucket_id))

\* a run over a legacy database that had entries has completed
MigratedWithEntries ==
    /\ mig.pc = "done"
    /\ legacyIds # {}
    /\ mig.before.entries # {}
    /\ Cardinality(users) = 2

\* C11: a run started after a completed run detects the ownership column,
\* so it never enters the backfill, and at every point of it the buckets,
\* the entries and the schema are exactly as the completed run left them.
SecondRunChangesNothing ==
    mig.previous = "done"
        => /\ mig.pc \in {"ensureIndex", "seed", "done"}
           /\ buckets = mig.before.buckets
           /\ entries = mig.before.entries
           /\ schema = mig.before.schema

\* the second run over a migrated database with users, buckets and entries
\* has completed
SecondRunCompleted ==
    /\ mig.previous = "done"
    /\ mig.pc = "done"
    /\ \E b \in buckets : b.user_id = 2
    /\ entries # {}

\* C12: when a run has failed, the buckets, the entries and the schema of
\* the buckets table are those the run found when it began.
FailedRunLeavesPrePhaseState ==
    mig.pc = "failed"
        => /\ buckets = mig.before.buckets
           /\ entries = mig.before.entries
           /\ schema = mig.before.schema

\* ------------------------------------------------------------------ properties of the statistics

\* the ids of the buckets the page holds for the user
ownBucketIds(userId) == {b.id : b \in getBucketsForUser(userId)}

\* the buckets of the user's own that the page holds a checked entry for on
\* the date
checkedOwnBuckets(userId, date) ==
    {id \in ownBucketIds(userId) :
        \E e \in app.entries : /\ e.userId = userId /\ e.bucketId = id
                               /\ e.date = date /\ e.checked}

\* the day t is complete for the signed-in user
complete(t) ==
    Cardinality(checkedOwnBuckets(app.user, toISODate(t)))
        >= Cardinality(ownBucketIds(app.user))

\* C13: for the signed-in user with n >= 1 buckets, over the entries the page
\* holds, the streak is the number k of consecutive complete days that end at
\* today when today is complete and at yesterday otherwise: the k days are
\* complete and the day before them is not; without buckets it is 0.
StreakCountsCompleteDays ==
    app.user # NULL
        => IF ownBucketIds(app.user) = {} THEN userStreak = 0
           ELSE LET start == IF complete(now) THEN now ELSE now - 1
                    k == userStreak
                IN  /\ k >= 0
                    /\ \A i \in 0..(k - 1) : complete(start - i)
                    /\ ~complete(start - k)

\* a streak of two days that ends yesterday
StreakEndsYesterday ==
    /\ app.user # NULL
    /\ userStreak = 2
    /\ ~complete(now)

\* the days of the viewed month
monthDates == { <<app.month[1], app.month[2], day>> : day \in 1..daysInMonth }

\* the days of the viewed month from the epoch to today
activeDates(epoch) ==
    {date \in monthDates : ~dateLess(date, epoch) /\ ~dateLess(today, date)}

\* C14: for every user U and the viewed month M the percentage shown is
\* round(100 * c / (n * a)), with c the number of U's checked entries on
\* active days of M that reference buckets of U, n the number of U's
\* buckets and a the number of active days of M; it is 0 when n * a = 0.
PercentageOfViewedMonth ==
    app.user # NULL
        => \A u \in users : \A epoch \in EPOCH_DATES :
             LET c == Cardinality({e \in app.entries :
                                     /\ e.userId = u.id
                                     /\ e.checked
                                     /\ e.date \in activeDates(epoch)
                                     /\ e.bucketId \in ownBucketIds(u.id)})
                 n == Cardinality(ownBucketIds(u.id))
                 a == Cardinality(activeDates(epoch))
             IN  IF n * a = 0 THEN percent(u.id, epoch) = 0
                 ELSE /\ 2 * n * a * percent(u.id, epoch) <= 200 * c + n * a
                      /\ 200 * c + n * a < 2 * n * a * (percent(u.id, epoch) + 1)

\* the user's checked entries on the date that reference buckets of the user
ownedChecks(userId, date) ==
    {e \in app.entries : /\ e.userId = userId /\ e.checked /\ e.date = date
                         /\ e.bucketId \in ownBucketIds(userId)}

\* C15: every aggregate shown for a user counts only the checked entries
\* whose bucket is one of the user's: the checked count and the completion
\* flag of the selected day and of today, the monthly count and the count
\* behind the heatmap (the streak: C13).
OnlyOwnedBucketsCount ==
    app.user # NULL
        => /\ completedToday = Cardinality(ownedChecks(app.user, app.selectedDate))
           /\ allDone = (/\ totalBuckets > 0
                         /\ Cardinality(ownedChecks(app.user, app.selectedDate))
                              >= totalBuckets)
           /\ \A u \in users :
                /\ friendsToday(u.id).checked = Cardinality(ownedChecks(u.id, today))
                /\ friendsToday(u.id).complete
                     = (/\ ownBucketIds(u.id) # {}
                        /\ Cardinality(ownedChecks(u.id, today))
                             >= Cardinality(ownBucketIds(u.id)))
                /\ \A date \in monthDates :
                     userDayCompletion(u.id, date) = Cardinality(ownedChecks(u.id, date))
                /\ \A epoch \in EPOCH_DATES :
                     monthlyCompletionCounts(u.id, epoch)
                       = Cardinality({e \in app.entries :
                                        /\ e.userId = u.id /\ e.checked
                                        /\ ~dateLess(e.date, epoch)
                                        /\ ~dateLess(today, e.date)
                                        /\ e.bucketId \in ownBucketIds(u.id)})

\* C16: for every user and every day of the viewed month the heatmap
\* intensity p/q satisfies 0 <= p <= q, and is 0 when the user has no bucket.
IntensityWithinUnit ==
    app.user # NULL
        => \A u \in users : \A date \in monthDates :
             LET f == intensity(u.id, date)
             IN  /\ f[2] > 0
                 /\ 0 <= f[1]
                 /\ f[1] <= f[2]
                 /\ ownBucketIds(u.id) = {} => f[1] = 0

\* a user's day is shown at full intensity while an entry of that day on a
\* bucket of someone else is held as well
FullIntensityBesideForeignEntry ==
    /\ app.user # NULL
    /\ \E u \in users : \E date \in monthDates :
         /\ intensity(u.id, date)[1] = intensity(u.id, date)[2]
         /\ intensity(u.id, date)[1] > 0
         /\ \E e \in app.entries : /\ e.userId = u.id /\ e.date = date /\ e.checked
                                   /\ e.bucketId \notin ownBucketIds(u.id)

\* ------------------------------------------------------------------ properties of the bucket limit

\* C17: a create request with a non-blank name by a user who owns 5 buckets
\* is answered 400 with the limit error, whether the name is new or that of
\* one of the user's buckets, and the bucket table and its id sequence are
\* left as they were.
SixthCreateRefused ==
    [][ \/ \A u \in users : Cardinality(bucketsOf(u.id)) < MAX_BUCKETS_PER_USER
        \/ \A req \in RegistryBucketRequests :
             (/\ req.method = "POST"
              /\ namesBucket(req)
              /\ Cardinality(bucketsOf(callerOf(req))) = MAX_BUCKETS_PER_USER
              /\ BucketsHandler(req))
               => /\ res' = [status |-> 400, error |-> "Maximum 5 habits allowed"]
                  /\ buckets' = buckets
                  /\ nextBucketId' = nextBucketId ]_vars

\* the first user holds five buckets, the one named "a" among them, none
\* named "d", and a create has just been refused for the limit
SixthCreateRefusedBesideUsedName ==
    /\ res = [status |-> 400, error |-> "Maximum 5 habits allowed"]
    /\ Cardinality(bucketsOf(1)) = MAX_BUCKETS_PER_USER
    /\ \E b \in bucketsOf(1) : b.name = <<"a">>
    /\ \A b \in bucketsOf(1) : b.name # <<"d">>

\* ------------------------------------------------------------------ properties of the notes

notesFor(rows, userId, date) == {n \in rows : n.user_id = userId /\ n.date = date}

\* C18: a note upsert (U, D, text) is answered 200 and leaves no row for
\* (U, D) when the trimmed text is empty, whether a row existed or not, and
\* otherwise exactly one row for (U, D) whose body is the trimmed text; the
\* rows of other keys stay; no stored note has a blank or untrimmed body.
NoteUpsertStoresTrimmedOrDeletes ==
    /\ [](\A n \in user_notes : n.notes # <<>> /\ n.notes = trim(n.notes))
    /\ [][ \A req \in JournalNoteRequests :
             (/\ "body" \in DOMAIN req
              /\ "date" \in DOMAIN req.body
              /\ NotesHandler(req))
               => LET u == callerOf(req)
                      d == req.body.date
                      text == IF "notes" \in DOMAIN req.body THEN trim(req.body.notes)
                              ELSE <<>>
                  IN  /\ res'.status = 200
                      /\ notesFor(user_notes', u, d) =
                           (IF text = <<>> THEN {}
                            ELSE {[user_id |-> u, date |-> d, notes |-> text]})
                      /\ user_notes' \ notesFor(user_notes', u, d)
                           = user_notes \ notesFor(user_notes, u, d) ]_vars

\* the first user's note of day 0 is stored trimmed, the note of day 1 is
\* not stored, and the second user has a note on day 1
TrimmedNoteStoredOtherGone ==
    /\ res.status = 200
    /\ notesFor(user_notes, 1, toISODate(0))
         = {[user_id |-> 1, date |-> toISODate(0), notes |-> <<"n">>]}
    /\ notesFor(user_notes, 1, toISODate(1)) = {}
    /\ notesFor(user_notes, 2, toISODate(1)) # {}

\* ------------------------------------------------------------------ properties of the sessions

\* the sessions row a token stands for
rowsOf(token) == {s \in sessions : s.token_hash = hashToken(token)}

\* a request bearing the token is authenticated
authenticates(token) == getUserFromRequest([cookie |-> token]).user_id # NULL

\* the logout that completes: POST /api/auth/logout bearing the token
logoutOf(token) == LogoutHandler([method |-> "POST", cookie |-> token])

\* C19: once a logout bearing token T has completed (it is answered 200), T
\* has no session row and never has one again, so no later request bearing T
\* is authenticated; every other token that authenticated before the logout
\* still does after it, and a token stops authenticating only by its own
\* logout or by its expiry.
LogoutRevokesItsTokenOnly ==
    [][\A token \in IssuedTokens :
          /\ rowsOf(token) = {} => (rowsOf(token) = {})' /\ ~authenticates(token)'
          /\ logoutOf(token) =>
                /\ res'.status = 200
                /\ (rowsOf(token) = {})'
                /\ ~authenticates(token)'
                /\ \A other \in IssuedTokens \ {token} :
                      authenticates(other) => authenticates(other)'
          /\ authenticates(token) /\ ~authenticates(token)' =>
                \/ logoutOf(token)
                \/ \E s \in rowsOf(token) : s.expires_at < now']_vars

\* Three sessions were handed out for two users and nothing has expired; one
\* token was logged out and the other two, of different users, authenticate:
\* one of them is a session of the user who logged out.
LoggedOutBesideLiveSession ==
    /\ now = 0
    /\ nextSessionId = 4
    /\ res.status = 200
    /\ Cardinality(sessions) = 2
    /\ \A s \in sessions : authenticates(randomBytes(s.id))
    /\ \E s1, s2 \in sessions : s1.user_id # s2.user_id

\* the session of the token is past its 45 days
expired(token) == \E s \in rowsOf(token) : now > s.created_at + SESSION_DAYS

\* a token authenticates only within 45 days of its session's creation
withinLifetime(token) ==
    authenticates(token) => \E s \in rowsOf(token) : now <= s.created_at + SESSION_DAYS

\* requests bearing the token that reach the session lookup
lookups(token) ==
    \/ BucketsHandler([method |-> "GET", cookie |-> token]) /\ res'.status = 401
    \/ LogoutHandler([method |-> "POST", cookie |-> token])

\* requests bearing the token that are turned away for their method
turnedAway(token) ==
    \/ BucketsHandler([method |-> "PATCH", cookie |-> token]) /\ res'.status # 200
    \/ LogoutHandler([method |-> "GET", cookie |-> token]) /\ res'.status # 200

\* C20 as stated: a session created at t0 authenticates at t only if
\* t <= t0 + 45 days; any request bearing the token after that is not
\* answered as authenticated and deletes the session row, and a token
\* without a row never has one again.
ExpiredSessionDeletedByAnyRequest ==
    [][\A token \in IssuedTokens :
          /\ withinLifetime(token) /\ withinLifetime(token)'
          /\ expired(token) =>
                /\ ~BucketsHandler([method |-> "GET", cookie |-> token])
                       \/ res'.status = 401
                /\ lookups(token) \/ turnedAway(token) => (rowsOf(token) = {})'
          /\ rowsOf(token) = {} => (rowsOf(token) = {})']_vars

\* C20, amended: a session created at t0 authenticates at t only if
\* t <= t0 + 45 days; a request bearing the token after that which reaches
\* the session lookup (its method is one the endpoint allows) is answered
\* 401, or 200 by logout, and deletes the session row, and a token without a
\* row never has one again.
ExpiredSessionDeletedOnLookup ==
    [][\A token \in IssuedTokens :
          /\ withinLifetime(token) /\ withinLifetime(token)'
          /\ expired(token) =>
                /\ ~BucketsHandler([method |-> "GET", cookie |-> token])
                       \/ res'.status = 401
                /\ lookups(token) => (rowsOf(token) = {})'
          /\ rowsOf(token) = {} => (rowsOf(token) = {})']_vars

\* On the day after the first session's last, a request was answered 401, the
\* first session's row is gone and the session created a day later is still
\* good.
ExpiredRowGoneYoungerSessionGood ==
    /\ now = SESSION_DAYS + 1
    /\ res.status = 401
    /\ rowsOf(randomBytes(1)) = {}
    /\ \E s \in sessions : s.created_at = 1 /\ authenticates(randomBytes(s.id))

\* ------------------------------------------------------------------ properties of the signup

\* the login that succeeds with the profile's email
loginOf(email) ==
    LoginHandler([method |-> "POST", credential |-> [forged |-> FALSE, email |-> email]])

\* the default buckets as (name, sort position) pairs
defaultPairs == { <<DEFAULT_BUCKETS[i].name, DEFAULT_BUCKETS[i].sortOrder>> :
                    i \in 1 .. Len(DEFAULT_BUCKETS) }

\* C21: when a successful login creates a user, the user owns exactly the
\* three default buckets (sort positions 1, 2, 3) once the login completes;
\* a login of a user who exists adds no user row and no bucket.
SignupSeedsDefaults ==
    [][\A email \in {"friend@example.com", "new@example.com"} :
          loginOf(email) =>
              IF \E u \in users : u.email = email
              THEN users' = users /\ buckets' = buckets
              ELSE \E u \in users' \ users :
                      /\ u.email = email
                      /\ users' = users \cup {u}
                      /\ Cardinality({b \in buckets' : b.user_id = u.id}) = 3
                      /\ {<<b.name, b.sort_order>> :
                             b \in {c \in buckets' : c.user_id = u.id}} = defaultPairs]_vars

\* ------------------------------------------------------------------ properties of the admin reset

\* the caller of the request is signed in and is not an administrator
plainUser(req) ==
    \E u \in users : u.id = callerOf(req) /\ u.email \notin ADMIN_EMAILS

\* C22: a reset request of an authenticated user whose email is not in the
\* admin allow-list is answered 403 Forbidden and leaves buckets, entries,
\* notes, users and sessions unchanged.
NonAdminResetForbidden ==
    [][\A req \in ApiResetRequests :
          req.method = "POST" /\ plainUser(req) /\ ResetHandler(req) =>
              /\ res' = [status |-> 403, error |-> "Forbidden"]
              /\ tablesUnchanged
              /\ users' = users
              /\ sessions' = sessions]_vars

\* A request was answered Forbidden while an entry of the second user, a
\* note and a bucket created after the seeding are stored.
ForbiddenWithDataStored ==
    /\ res = [status |-> 403, error |-> "Forbidden"]
    /\ \E e \in entries : e.user_id = 2
    /\ user_notes # {}
    /\ \E b \in buckets : b.id > 2 * Len(DEFAULT_BUCKETS)

\* C23: immediately after an admin reset completes, the entries table is
\* empty and every user owns exactly the three default buckets (sort
\* positions 1, 2, 3), whatever was stored before; users and sessions are
\* unchanged.
ResetLeavesDefaultsOnly ==
    [][\A req \in RegistryResetRequests :
          ResetHandler(req) /\ res'.status = 200 =>
              /\ entries' = {}
              /\ \A u \in users :
                    /\ Cardinality({b \in buckets' : b.user_id = u.id}) = 3
                    /\ {<<b.name, b.sort_order>> :
                           b \in {c \in buckets' : c.user_id = u.id}} = defaultPairs
              /\ \A b \in buckets' : \E u \in users : u.id = b.user_id
              /\ users' = users
              /\ sessions' = sessions]_vars

\* A reset has completed after the first user had created a bucket: the six
\* buckets stored are younger than that one, and no entry is left.
ResetAfterCreate ==
    /\ res.status = 200
    /\ entries = {}
    /\ Cardinality(buckets) = 2 * Len(DEFAULT_BUCKETS)
    /\ \A b \in buckets : b.id > 2 * Len(DEFAULT_BUCKETS) + 1

\* ------------------------------------------------------------------ properties of the sort position

\* C24: a successful create gives the new bucket a sort position one greater
\* than the largest among the user's buckets before it (1 when the user had
\* none), so the list ordered by sort position, then id, has it last.
CreateAppendsLast ==
    [][\A req \in SignupBucketRequests :
          req.method = "POST" /\ BucketsHandler(req) /\ res'.status = 200 =>
              \E new \in buckets' \ buckets :
                  LET mine == bucketsOf(callerOf(req))
                  IN  /\ buckets' = buckets \cup {new}
                      /\ new.user_id = callerOf(req)
                      /\ \A b \in mine : b.sort_order < new.sort_order
                      /\ IF mine = {} THEN new.sort_order = 1
                         ELSE \E b \in mine : new.sort_order = b.sort_order + 1
                      /\ \A b \in mine : listedBefore(b, new)]_vars

\* The second user deleted two buckets and moved the third to the front, then
\* created one, and a user who owned no bucket created a first one.
CreatedPastAGapAndFirst ==
    /\ res.status = 200
    /\ \E new \in buckets :
          /\ new.user_id = 2 /\ new.id > 2 * Len(DEFAULT_BUCKETS)
          /\ new.sort_order < 0
          /\ \A b \in bucketsOf(2) \ {new} : listedBefore(b, new)
    /\ \E new \in buckets :
          /\ new.user_id > 2 /\ new.sort_order = 1 /\ bucketsOf(new.user_id) = {new}

\* ------------------------------------------------------------------ properties of the calendar

\* the days of a month by the Gregorian rule
calendarDays(y, m) ==
    IF m = 2
    THEN (IF y % 400 = 0 \/ (y % 4 = 0 /\ y % 100 # 0) THEN 29 ELSE 28)
    ELSE IF m \in {4, 6, 9, 11} THEN 30 ELSE 31

startedAfterMendedAbort ==
    /\ mig.previous = "failed"
    /\ mig.before.schema.user_id
    /\ \E b \in mig.before.buckets : b.user_id = NULL
    /\ \A e \in mig.before.entries :
          \A b \in mig.before.buckets : b.id = e.bucket_id => b.user_id # NULL
    /\ ~userNameDuplicates({b \in mig.before.buckets : b.user_id # NULL})

\* C26: a run that follows a run aborted during the backfill, once the cause
\* is removed, carries out the remaining backfill: when it ends, no
\* owner-less bucket is left and ownership is mandatory.
ResumedRunFinishesBackfill ==
    mig.pc = "done" /\ startedAfterMendedAbort =>
        globalBucketRows = {} /\ schema.not_null

\* C27: after a migration run that completes (migrate followed by
\* seedDefaultBuckets), every bucket has an owner and every user owns at
\* least one bucket: the users left with no bucket after the backfill own
\* exactly the three default buckets.
CompletedRunLeavesOwnedBuckets ==
    [][mig.pc = "seed" /\ mig'.pc = "done" =>
          /\ \A b \in buckets' : \E u \in users : u.id = b.user_id
          /\ \A u \in users : \E b \in buckets' : b.user_id = u.id
          /\ \A id \in usersWithoutBuckets :
                /\ Cardinality({b \in buckets' : b.user_id = id}) = 3
                /\ {<<b.name, b.sort_order>> :
                       b \in {c \in buckets' : c.user_id = id}} = defaultPairs]_vars

\* ------------------------------------------------------------------ properties of the dry run

\* C30: a run with --dry-run on a database whose bucket table has no
\* ownership column runs to its end without raising an error and leaves
\* every table and the schema unchanged.
DryRunCompletesUnchanged ==
    mig.dryRun /\ ~mig.before.schema.user_id /\ mig.pc # "off" =>
        /\ mig.pc # "failed"
        /\ buckets = mig.before.buckets
        /\ entries = mig.before.entries
        /\ schema = mig.before.schema

\* ------------------------------------------------------------------ properties of requests in flight

\* C28: with the count query, the max-sort query and the insert of each
\* create request run as separate statements that interleave with those of
\* the other requests, no user ever owns more than 5 buckets.
RacingCreatesKeepLimit ==
    [][\A c \in inflight.creates :
          insertRow(c) => Cardinality({b \in buckets' : b.user_id = c.user_id})
                              <= MAX_BUCKETS_PER_USER]_vars

\* the requests the page issued for the bucket and the date
issued(bucketId, date) ==
    {t \in inflight.toggles : t.bucketId = bucketId /\ t.date = date}

\* the value the entries table holds for the page's user, the bucket and the date
stored(bucketId, date) ==
    \E e \in entries : /\ e.user_id = app.user /\ e.bucket_id = bucketId
                       /\ e.date = date /\ e.checked

\* C29: once every toggle request the page issued for a bucket and a date
\* has been answered 200, the value the page shows for them is the value the
\* server stores, also when a box was clicked again while a request was
\* under way and the requests reached the server in any order.
SettledTogglesAgree ==
    \A r \in inflight.toggles :
        (\A t \in issued(r.bucketId, r.date) : t.pc = "done" /\ t.status = 200)
            => (isChecked(r.bucketId, r.date) <=> stored(r.bucketId, r.date))

====
